---- MODULE Spec2Model ----
(***************************************************************************)
(* gram-middleware: the request evaluation pipeline (src/src/pipeline.ts)  *)
(* and the wrapper that runs it in front of a provider call                *)
(* (interceptedMethod in src/src/config.ts).                               *)
(*                                                                         *)
(* One behaviour is one use of the library's public surface: either one    *)
(* wrapped call (Invoke ... until the caller has its outcome) or one       *)
(* direct call of the exported synchronous function evaluateMaxCost.       *)
(* Every `await` of the code is the end of an action; the oracle's and     *)
(* the provider's answers are the environment's choices.                   *)
(*                                                                         *)
(* Costs are integers (one unit is one smallest amount of money); model    *)
(* identifiers are non-empty strings (truthy in the code's tests).         *)
(***************************************************************************)
EXTENDS Integers, Sequences, FiniteSets, TLC

(***************************************************************************)
(* Bounds of the model.                                                    *)
(***************************************************************************)
\* Oracle input costs range over 1..MaxCostUnits.
MaxCostUnits == 3
\* Configured fallback lists have at most MaxFallbacks entries.
MaxFallbacks == 2

(***************************************************************************)
(* Values.                                                                 *)
(***************************************************************************)
\* `null` / `undefined` of a number-typed field (maxCost, remainingBudget,
\* max_tokens); every real value of these fields is >= 0.
NoValue == -1
\* `null` / `undefined` of an object-typed value (an estimate, an error, ...).
NULL == [null |-> TRUE]

Hooks == {"onLimitExceeded", "onDowngrade", "onOutputCapped", "onLog"}

\* The adapter of the wrapped client (OpenAIAdapter.provider).
Provider == "openai"

\* gram.getModel: the oracle's model table (provider and output price per
\* MILLION tokens); a model outside it is unknown.
getModel(model) ==
  CASE model = "m1" -> [provider |-> "openai", outputPrice |-> 500000]
    [] model = "m2" -> [provider |-> "openai", outputPrice |-> 250000]
    [] model = "m3" -> [provider |-> "openai", outputPrice |-> 0]
    [] model = "c1" -> [provider |-> "anthropic", outputPrice |-> 250000]
    [] OTHER -> NULL

\* The models a configuration may name as fallbacks.
FallbackPool == {"m2", "m3", "c1"}

\* The request's messages are opaque to the pipeline.
Messages == "msgs"

\* The provider's price unit: outputCost is a price per MILLION output tokens.
MILLION == 1000000

\* Token counts the oracle may report.
TokenCounts == {7}

\* An error object; two errors are the same object iff they are equal here.
Error(message) == [kind |-> "Error", message |-> message]

\* What a throwing hook throws.
HookError(hook) == [kind |-> "HookError", message |-> hook]

\* The answers of gram.estimate to one query for `model`: an estimate (any
\* input cost, the model's output price as the rate), or a failure.
OracleReplies(model) ==
  {[ok |-> TRUE, tokens |-> t, inputCost |-> c, outputCost |-> getModel(model).outputPrice] :
     t \in TokenCounts, c \in 1..MaxCostUnits}
  \cup {[ok |-> FALSE, error |-> Error("oracle down")]}

\* The chunks of a provider's stream: with a text delta, or without one.
Chunk(id, delta) == [id |-> id, delta |-> delta]

\* The answers of the provider's own method to a streaming request: a
\* stream of no, one or two chunks, or a failure.
StreamReplies ==
  {[ok |-> TRUE, response |-> [id |-> "stream", usage |-> NULL, chunks |-> chunks]] :
     chunks \in {<<>>, <<Chunk(1, "a")>>, <<Chunk(1, "a"), Chunk(2, "")>>}}
  \cup {[ok |-> FALSE, error |-> Error("provider down")]}

\* The answers of gram.countTokens: a number of tokens, or a failure.
CountReplies == {[ok |-> TRUE, tokens |-> 3], [ok |-> FALSE, error |-> Error("oracle down")]}

\* The answers of the provider's own method: a response, or a failure.
ProviderReplies ==
  {[ok |-> TRUE, response |-> [id |-> "resp", usage |-> u]] :
     u \in {NULL, [promptTokens |-> 5, completionTokens |-> 3]}}
  \cup {[ok |-> FALSE, error |-> Error("provider down")]}

(***************************************************************************)
(* Hook calls.  A function of the pipeline returns a record                *)
(*   [ret, exc, calls]                                                     *)
(* ret: the value returned (NULL when it threw); exc: the exception thrown *)
(* (NULL when it returned); calls: the hook invocations it made, in order, *)
(* one sequence per hook.                                                  *)
(***************************************************************************)
NoCalls == [limit |-> <<>>, down |-> <<>>, capped |-> <<>>, log |-> <<>>]

Returned(value, calls) == [ret |-> value, exc |-> NULL, calls |-> calls]

Threw(error, calls) == [ret |-> NULL, exc |-> error, calls |-> calls]

\* config.hooks.<hook>(...): a direct call; a throwing hook's exception
\* leaves the calling function at the call.
DirectHook(hook, value, calls, throws) ==
  IF hook \in throws THEN Threw(HookError(hook), calls) ELSE Returned(value, calls)

\* safeInvokeHook: the hook is called, its exception is caught and reported
\* on console.error; nothing is thrown.
safeInvokeHook(hook, throws) ==
  IF hook \in throws
  THEN [exc |-> NULL, console |-> <<[text |-> "Hook error", reason |-> HookError(hook).message]>>]
  ELSE [exc |-> NULL, console |-> <<>>]

(***************************************************************************)
(* Errors and results.                                                     *)
(***************************************************************************)
\* Mutant: the constructor's first two arguments change places.
GramLimitError_swapped(estimatedCost, maxCost, model) ==
  [kind |-> "GramLimitError", estimatedCost |-> maxCost,
   maxCost |-> estimatedCost, model |-> model]

GramLimitError(estimatedCost, maxCost, model) ==
  [kind |-> "GramLimitError", estimatedCost |-> estimatedCost,
   maxCost |-> maxCost, model |-> model]

GramDowngradeError(originalModel, attemptedFallbacks, reason) ==
  [kind |-> "GramDowngradeError", originalModel |-> originalModel,
   attemptedFallbacks |-> attemptedFallbacks, reason |-> reason]

\* Mutant: a result that proceeds carries no request.
Proceed_withoutRequest(args) ==
  [proceed |-> TRUE, modifiedArgs |-> NoValue, error |-> NULL,
   downgraded |-> NULL, outputCapped |-> NULL, failedOpen |-> FALSE]

\* { proceed: true, modifiedArgs: args }
Proceed(args) ==
  [proceed |-> TRUE, modifiedArgs |-> args, error |-> NULL,
   downgraded |-> NULL, outputCapped |-> NULL, failedOpen |-> FALSE]

\* Mutant: a rejection is flagged proceed.
Blocked_proceeding(error) ==
  [proceed |-> TRUE, modifiedArgs |-> NoValue, error |-> error,
   downgraded |-> NULL, outputCapped |-> NULL, failedOpen |-> FALSE]

\* { proceed: false, error }
Blocked(error) ==
  [proceed |-> FALSE, modifiedArgs |-> NoValue, error |-> error,
   downgraded |-> NULL, outputCapped |-> NULL, failedOpen |-> FALSE]

(***************************************************************************)
(* Configuration.                                                          *)
(***************************************************************************)
\* GramConfigError(field, reason)
GramConfigError(field, reason) ==
  [kind |-> "GramConfigError", field |-> field, reason |-> reason]

\* A field of GramOptions is a set: empty when the caller leaves the field
\* out (undefined), {v} when the caller gives the value v.
Given(option) == option # {}

ValueOf(option) == CHOOSE v \in option : TRUE

\* option ?? default
OrElse(option, default) == IF Given(option) THEN ValueOf(option) ELSE default

\* Mutant: a ceiling of 0 passes the validation.
validateConfig_zeroAccepted(options) ==
  IF Given(options.maxCost) /\ ValueOf(options.maxCost) < 0
  THEN GramConfigError("maxCost", "Must be a positive number")
  ELSE IF Given(options.remainingBudget) /\ ValueOf(options.remainingBudget) < 0
  THEN GramConfigError("remainingBudget", "Cannot be negative")
  ELSE IF Given(options.minOutputTokens) /\ ValueOf(options.minOutputTokens) <= 0
  THEN GramConfigError("minOutputTokens", "Must be a positive number")
  ELSE NULL

\* validateConfig: the error it throws, NULL when it returns.
validateConfig(options) ==
  IF Given(options.maxCost) /\ ValueOf(options.maxCost) <= 0
  THEN GramConfigError("maxCost", "Must be a positive number")
  ELSE IF Given(options.remainingBudget) /\ ValueOf(options.remainingBudget) < 0
  THEN GramConfigError("remainingBudget", "Cannot be negative")
  ELSE IF Given(options.minOutputTokens) /\ ValueOf(options.minOutputTokens) <= 0
  THEN GramConfigError("minOutputTokens", "Must be a positive number")
  ELSE NULL

\* Mutant: strict defaults to false whether a ceiling is given or not.
resolveConfig_lenient(options) ==
  [maxCost |-> OrElse(options.maxCost, NoValue),
   autoDowngrade |-> OrElse(options.autoDowngrade, FALSE),
   fallbackModels |-> OrElse(options.fallbackModels, <<>>),
   remainingBudget |-> OrElse(options.remainingBudget, NoValue),
   minOutputTokens |-> OrElse(options.minOutputTokens, 500),
   strict |-> OrElse(options.strict, FALSE),
   failOpen |-> OrElse(options.failOpen, TRUE)]

\* resolveConfig: the options with the defaults applied (null is NoValue).
resolveConfig(options) ==
  LET hasMaxCost == Given(options.maxCost)
  IN  [maxCost |-> OrElse(options.maxCost, NoValue),
       autoDowngrade |-> OrElse(options.autoDowngrade, FALSE),
       fallbackModels |-> OrElse(options.fallbackModels, <<>>),
       remainingBudget |-> OrElse(options.remainingBudget, NoValue),
       minOutputTokens |-> OrElse(options.minOutputTokens, 500),
       strict |-> OrElse(options.strict, hasMaxCost),
       failOpen |-> OrElse(options.failOpen, TRUE)]

\* detectProvider: the adapter that supports the client, NULL when none
\* does (the function throws).
detectProvider(client) ==
  IF client \in {"openai", "anthropic"} THEN [provider |-> client] ELSE NULL

\* withGram(client, options): validation, resolution, provider detection,
\* the warning of step 4 and the proxy, which holds the client, the adapter
\* and the resolved configuration.
withGram(client, options, throws) ==
  LET invalid == validateConfig(options)
      cfg == resolveConfig(options)
      adapter == detectProvider(client)
      proxy == [client |-> client, adapter |-> adapter, config |-> cfg]
      warning == [kind |-> "noFallbacksWarning"]
  IN  IF invalid # NULL THEN Threw(invalid, NoCalls)
      ELSE IF adapter = NULL
      THEN Threw(GramConfigError("client", "Unsupported SDK"), NoCalls)
      ELSE IF /\ Given(options.autoDowngrade) /\ ValueOf(options.autoDowngrade)
              /\ (~Given(options.fallbackModels) \/ ValueOf(options.fallbackModels) = <<>>)
      THEN DirectHook("onLog", proxy, [NoCalls EXCEPT !.log = <<warning>>], throws)
      ELSE Returned(proxy, NoCalls)

(***************************************************************************)
(* Cost Oracle Client.                                                     *)
(***************************************************************************)
\* Mutant: with failOpen=false the oracle's failure is wrapped in a new error.
estimateCost_wrapping(reply, model, config, throws) ==
  IF reply.ok
  THEN Returned([tokens |-> reply.tokens, inputCost |-> reply.inputCost,
                 outputCost |-> reply.outputCost], NoCalls)
  ELSE IF config.failOpen
       THEN DirectHook("onLog", NULL,
                       [NoCalls EXCEPT !.log =
                          <<[kind |-> "estimateWarning", model |-> model,
                             reason |-> reply.error.message]>>],
                       throws)
       ELSE Threw(Error("estimate failed"), NoCalls)

\* estimateCost after `await config.gram.estimate(messages, model)` answered
\* with `reply`.
estimateCost(reply, model, config, throws) ==
  IF reply.ok
  THEN Returned([tokens |-> reply.tokens, inputCost |-> reply.inputCost,
                 outputCost |-> reply.outputCost], NoCalls)
  ELSE IF config.failOpen
       THEN DirectHook("onLog", NULL,
                       [NoCalls EXCEPT !.log =
                          <<[kind |-> "estimateWarning", model |-> model,
                             reason |-> reply.error.message]>>],
                       throws)
       ELSE Threw(reply.error, NoCalls)

(***************************************************************************)
(* Limit Evaluator.                                                        *)
(***************************************************************************)
\* estimate.inputCost > config.maxCost
exceedsMaxCost(estimate, config) == estimate.inputCost > config.maxCost

\* Mutant: the breach arm signals onLimitExceeded in strict mode too.
limitBreach_signalling(estimate, model, config, args, throws) ==
  IF config.strict
  THEN DirectHook("onLimitExceeded",
                  Blocked(GramLimitError(estimate.inputCost, config.maxCost, model)),
                  [NoCalls EXCEPT !.limit = <<estimate>>], throws)
  ELSE DirectHook("onLimitExceeded", Proceed(args),
                  [NoCalls EXCEPT !.limit = <<estimate>>], throws)

\* Mutant: the breach arm signals nothing in lenient mode.
limitBreach_silent(estimate, model, config, args, throws) ==
  IF config.strict
  THEN Returned(Blocked(GramLimitError(estimate.inputCost, config.maxCost, model)), NoCalls)
  ELSE Returned(Proceed(args), NoCalls)

\* The breach arm: strict blocks with a GramLimitError, lenient signals
\* onLimitExceeded and proceeds.
limitBreach(estimate, model, config, args, throws) ==
  IF config.strict
  THEN Returned(Blocked(GramLimitError(estimate.inputCost, config.maxCost, model)), NoCalls)
  ELSE DirectHook("onLimitExceeded", Proceed(args),
                  [NoCalls EXCEPT !.limit = <<estimate>>], throws)

evaluateMaxCost(estimate, model, config, args, throws) ==
  IF config.maxCost = NoValue THEN Returned(Proceed(args), NoCalls)
  ELSE IF estimate = NULL THEN Returned(Proceed(args), NoCalls)
  ELSE IF exceedsMaxCost(estimate, config)
       THEN limitBreach(estimate, model, config, args, throws)
       ELSE Returned(Proceed(args), NoCalls)

(***************************************************************************)
(* Fallback Search.                                                        *)
(***************************************************************************)
\* Mutant: every model is taken for a model of the provider.
isModelForProvider_any(model, provider) == TRUE

\* Mutant: a model the oracle does not know is taken for one of the provider.
isModelForProvider_unknownPasses(model, provider) ==
  LET modelData == getModel(model)
  IN  IF modelData = NULL THEN TRUE ELSE modelData.provider = provider

isModelForProvider(model, provider) ==
  LET modelData == getModel(model)
  IN  IF modelData = NULL THEN FALSE ELSE modelData.provider = provider

RECURSIVE filterFallbacksByProvider(_, _)
filterFallbacksByProvider(fallbackModels, provider) ==
  IF fallbackModels = <<>> THEN <<>>
  ELSE LET rest == filterFallbacksByProvider(Tail(fallbackModels), provider)
       IN  IF isModelForProvider(Head(fallbackModels), provider)
           THEN <<Head(fallbackModels)>> \o rest
           ELSE rest

\* Mutant: every estimate fits the ceiling.
fitsMaxCost_any(estimate, maxCost) == TRUE

\* Mutant: a fallback whose cost equals the limit does not fit.
fitsMaxCost_strict(estimate, maxCost) == estimate.inputCost < maxCost

\* estimate.inputCost <= maxCost: the fallback fits.
fitsMaxCost(estimate, maxCost) == estimate.inputCost <= maxCost

\* Mutant: an absent limit is compared like a number.
withinLimit_absentCompared(est, cfg) == est.inputCost <= cfg.maxCost

\* Mutant: a cost equal to the limit counts as a breach.
withinLimit_strict(est, cfg) == cfg.maxCost = NoValue \/ est.inputCost < cfg.maxCost

\* evaluateRequest's own test: no limit configured, or within the limit.
withinLimit(est, cfg) == cfg.maxCost = NoValue \/ est.inputCost <= cfg.maxCost

\* attemptAutoDowngrade's tests before the search: is there a fallback to try?
hasDowngradePath(cfg, provider) ==
  /\ cfg.autoDowngrade
  /\ Len(cfg.fallbackModels) # 0
  /\ Len(filterFallbacksByProvider(cfg.fallbackModels, provider)) # 0

\* findAffordableFallback's two returns.
Found(fallbackModel, est, attempted) ==
  [found |-> TRUE, model |-> fallbackModel, estimate |-> est, attemptedModels |-> attempted]

NotFound(attempted) ==
  [found |-> FALSE, model |-> "none", estimate |-> NULL, attemptedModels |-> attempted]

\* attemptAutoDowngrade once findAffordableFallback returned `found`;
\* args is the request object, modifiedArgs the object setModel made.
attemptAutoDowngrade(originalModel, origEstimate, found, cfg, args, modifiedArgs, throwing) ==
  IF found.found /\ found.estimate # NULL
  THEN LET savings == origEstimate.inputCost - found.estimate.inputCost
           downgraded == [from |-> originalModel, to |-> found.model, savings |-> savings]
       IN  DirectHook("onDowngrade",
                      [Proceed(modifiedArgs) EXCEPT !.downgraded = downgraded],
                      [NoCalls EXCEPT !.down = <<downgraded>>],
                      throwing)
  ELSE IF cfg.strict
       THEN Returned(Blocked(GramDowngradeError(originalModel, found.attemptedModels,
                                                "All fallback models exceed cost limit")),
                     NoCalls)
       ELSE DirectHook("onLimitExceeded", Proceed(args),
                       [NoCalls EXCEPT !.limit = <<origEstimate>>], throwing)

(***************************************************************************)
(* Request arguments (OpenAIAdapter).                                      *)
(***************************************************************************)
\* Mutant: the transformation also writes its result into the object it
\* was given.
NewObject_inplace(objects, ref, value) ==
  Append([objects EXCEPT ![ref] = value], value)

\* Mutant: the transformation also writes its result into the object the
\* caller passed.
NewObject_aliased(objects, ref, value) ==
  Append([objects EXCEPT ![1] = value], value)

\* structuredClone(args), { ...args, model }, { ...args, max_tokens }: the
\* value made from object `ref` is a new object; no object is written.
NewObject(objects, ref, value) == Append(objects, value)

cloneArgs(args) == args

extractModel(args) == args.model

setModel(args, model) == [args EXCEPT !.model = model]

setMaxTokens(args, maxTokens) == [args EXCEPT !.max_tokens = maxTokens]

getMaxTokens(args) == args.max_tokens

isStreaming(args) == args.stream = TRUE

(***************************************************************************)
(* Output Cap Evaluator.                                                   *)
(***************************************************************************)
Min(a, b) == IF a <= b THEN a ELSE b

Max(a, b) == IF a >= b THEN a ELSE b

\* Mutant: the quotient is rounded up.
calculateMaxAffordableOutputTokens_ceil(remainingBudget, inputCost, outputPrice) ==
  LET availableBudget == remainingBudget - inputCost
  IN  IF availableBudget <= 0 THEN 0
      ELSE IF outputPrice <= 0 THEN 0
      ELSE LET maxTokens == (availableBudget * MILLION + outputPrice - 1) \div outputPrice
           IN  Max(0, maxTokens)

calculateMaxAffordableOutputTokens(remainingBudget, inputCost, outputPrice) ==
  LET availableBudget == remainingBudget - inputCost
  IN  IF availableBudget <= 0 THEN 0
      ELSE IF outputPrice <= 0 THEN 0
      ELSE LET maxTokens == (availableBudget * MILLION) \div outputPrice
           IN  Max(0, maxTokens)

NoCap == [shouldCap |-> FALSE, maxTokens |-> NoValue, reason |-> NULL]

\* Mutant: the test for a configured remaining budget is left out.
evaluateOutputCap_budgetUnchecked(estimate, config, currentMaxTokens) ==
  IF estimate = NULL THEN NoCap
  ELSE LET calculatedMaxTokens ==
             calculateMaxAffordableOutputTokens(
               config.remainingBudget, estimate.inputCost, estimate.outputCost)
       IN  IF calculatedMaxTokens <= 0
           THEN IF config.strict
                THEN [shouldCap |-> TRUE, maxTokens |-> 0,
                      reason |-> [text |-> "Insufficient budget for any output tokens"]]
                ELSE NoCap
           ELSE IF calculatedMaxTokens >= config.minOutputTokens THEN NoCap
           ELSE [shouldCap |-> TRUE,
                 maxTokens |->
                   IF currentMaxTokens # NoValue /\ currentMaxTokens > 0
                   THEN Min(calculatedMaxTokens, currentMaxTokens)
                   ELSE calculatedMaxTokens,
                 reason |-> [text |-> "Budget constraint",
                             affordable |-> calculatedMaxTokens,
                             threshold |-> config.minOutputTokens]]

\* Mutant: a requested length above the affordable one is capped even when
\* the affordable length reaches the threshold.
evaluateOutputCap_capsAboveAffordable(estimate, config, currentMaxTokens) ==
  IF config.remainingBudget = NoValue THEN NoCap
  ELSE IF estimate = NULL THEN NoCap
  ELSE LET calculatedMaxTokens ==
             calculateMaxAffordableOutputTokens(
               config.remainingBudget, estimate.inputCost, estimate.outputCost)
       IN  IF calculatedMaxTokens <= 0
           THEN IF config.strict
                THEN [shouldCap |-> TRUE, maxTokens |-> 0,
                      reason |-> [text |-> "Insufficient budget for any output tokens"]]
                ELSE NoCap
           ELSE IF /\ calculatedMaxTokens >= config.minOutputTokens
                   /\ ~(currentMaxTokens # NoValue /\ currentMaxTokens > calculatedMaxTokens)
                THEN NoCap
           ELSE [shouldCap |-> TRUE,
                 maxTokens |->
                   IF currentMaxTokens # NoValue /\ currentMaxTokens > 0
                   THEN Min(calculatedMaxTokens, currentMaxTokens)
                   ELSE calculatedMaxTokens,
                 reason |-> [text |-> "Budget constraint",
                             affordable |-> calculatedMaxTokens,
                             threshold |-> config.minOutputTokens]]

evaluateOutputCap(estimate, config, currentMaxTokens) ==
  IF config.remainingBudget = NoValue THEN NoCap
  ELSE IF estimate = NULL THEN NoCap
  ELSE LET calculatedMaxTokens ==
             calculateMaxAffordableOutputTokens(
               config.remainingBudget, estimate.inputCost, estimate.outputCost)
       IN  IF calculatedMaxTokens <= 0
           THEN IF config.strict
                THEN [shouldCap |-> TRUE, maxTokens |-> 0,
                      reason |-> [text |-> "Insufficient budget for any output tokens"]]
                ELSE NoCap
           ELSE IF calculatedMaxTokens >= config.minOutputTokens THEN NoCap
           ELSE [shouldCap |-> TRUE,
                 maxTokens |->
                   IF currentMaxTokens # NoValue /\ currentMaxTokens > 0
                   THEN Min(calculatedMaxTokens, currentMaxTokens)
                   ELSE calculatedMaxTokens,
                 reason |-> [text |-> "Budget constraint",
                             affordable |-> calculatedMaxTokens,
                             threshold |-> config.minOutputTokens]]

\* Returns [ret |-> [args, outputCapped], exc, calls]; args is the request
\* value to go on with (a new value when capped).
applyOutputCap(estimate, config, args, throws) ==
  LET capResult == evaluateOutputCap(estimate, config, getMaxTokens(args))
  IN  IF ~capResult.shouldCap \/ capResult.maxTokens = NoValue
      THEN Returned([args |-> args, outputCapped |-> NULL], NoCalls)
      ELSE DirectHook("onOutputCapped",
                      [args |-> setMaxTokens(args, capResult.maxTokens),
                       outputCapped |-> [maxTokens |-> capResult.maxTokens,
                                         reason |-> capResult.reason]],
                      [NoCalls EXCEPT !.capped =
                         <<[maxTokens |-> capResult.maxTokens, reason |-> capResult.reason]>>],
                      throws)

(***************************************************************************)
(* Recovery and completion logging.                                        *)
(***************************************************************************)
\* Mutant: the downgrade is ignored.
effectiveModel_original(res, originalModel) == originalModel

\* result.downgraded?.to ?? model
effectiveModel(res, originalModel) ==
  IF res.downgraded # NULL THEN res.downgraded.to ELSE originalModel

\* Mutant: the recovery result does not carry the failedOpen flag.
recover_unflagged(error, cfg, args, throwing) ==
  IF cfg.failOpen
  THEN [ret |-> Proceed(args),
        exc |-> NULL,
        log |-> <<[kind |-> "evaluationError", reason |-> error.message]>>,
        console |-> safeInvokeHook("onLog", throwing).console]
  ELSE [ret |-> NULL, exc |-> error, log |-> <<>>, console |-> <<>>]

\* safeEvaluateRequest's catch block: [ret, exc, log, console].
recover(error, cfg, args, throwing) ==
  IF cfg.failOpen
  THEN [ret |-> [Proceed(args) EXCEPT !.failedOpen = TRUE],
        exc |-> NULL,
        log |-> <<[kind |-> "evaluationError", reason |-> error.message]>>,
        console |-> safeInvokeHook("onLog", throwing).console]
  ELSE [ret |-> NULL, exc |-> error, log |-> <<>>, console |-> <<>>]

\* Mutant: the test for a blocked request is inverted.
rejects_inverted(res) == res.proceed /\ res.error # NULL

\* interceptedMethod's test of the evaluation's result: throw its error?
rejects(res) == ~res.proceed /\ res.error # NULL

\* The completion message of a non-streaming response (formatLogMessage);
\* the total cost is kept in millionths of a cost unit, which is exact.
completionMessage(loggedModel, est, resp) ==
  LET usage == resp.usage
      outputTokens == IF usage # NULL THEN usage.completionTokens ELSE 0
      inputTokens == IF usage # NULL THEN usage.promptTokens ELSE est.tokens
  IN  [kind |-> "completion", model |-> loggedModel, inputTokens |-> inputTokens,
       outputTokens |-> outputTokens,
       totalCostMillionths |-> est.inputCost * MILLION + outputTokens * est.outputCost]

(***************************************************************************)
(* State.                                                                  *)
(***************************************************************************)
VARIABLES
  config,          \* the ResolvedConfig of the wrapped client (never written)
  throws,          \* the hooks that throw when called
  request,         \* the value of the request as the caller passed it
  heap,            \* the request objects: heap[r] is the value of object r
  pc,              \* where the call stands
  site,            \* the caller of the estimateCost whose answer is awaited
  model,           \* interceptedMethod: the model extracted from the request
  workingArgs,     \* interceptedMethod: workingArgs (an object of heap)
  queried,         \* estimateCost: the model of the query being awaited
  oracleCalls,     \* the queries issued to gram.estimate (and by whom), in order
  oracleReplies,   \* the answers received, in order
  estimate,        \* the value the last estimateCost returned
  originalEstimate,\* attemptAutoDowngrade: the breaching estimate
  providerFallbacks,\* attemptAutoDowngrade: the filtered fallback list
  attemptedModels, \* findAffordableFallback: attemptedModels
  fallbackResult,  \* what findAffordableFallback returned
  evalResult,      \* what evaluateRequest returned
  result,          \* what safeEvaluateRequest returned
  exc,             \* the exception last thrown
  caught,          \* the exception safeEvaluateRequest's catch block caught
  limitCalls,      \* onLimitExceeded's invocations (their argument)
  downgradeCalls,  \* onDowngrade's invocations
  cappedCalls,     \* onOutputCapped's invocations
  logCalls,        \* onLog's invocations
  consoleErrors,   \* console.error lines
  providerCalls,   \* the requests passed to the provider's own method
  response,        \* the provider's response
  outcome,         \* what the caller of the wrapped call received
  direct,          \* a direct call of an exported function: inputs, result
  running,         \* concurrent calls: the call the variables above belong to
  suspended,       \* concurrent calls: the frame of the call that is waiting
  replay,          \* a call evaluated again, alone: the answers it is given
  stream           \* handleStreamingResponse: the wrapped stream's locals

envVars == <<config, throws, request, running, suspended, replay, stream>>
hookVars == <<limitCalls, downgradeCalls, cappedCalls, logCalls>>
oracleVars == <<queried, oracleCalls, oracleReplies>>
searchVars == <<originalEstimate, providerFallbacks, attemptedModels, fallbackResult>>
callVars == <<model, workingArgs>>
vars == <<config, throws, request, heap, pc, site, model, workingArgs, queried,
          oracleCalls, oracleReplies, estimate, originalEstimate,
          providerFallbacks, attemptedModels, fallbackResult, evalResult,
          result, exc, caught, limitCalls, downgradeCalls, cappedCalls,
          logCalls, consoleErrors, providerCalls, response, outcome, direct,
          running, suspended, replay, stream>>

\* The object the caller passed to the wrapped method.
originalArgs == 1

RECURSIVE SeqsUpTo(_, _)
SeqsUpTo(S, n) ==
  IF n = 0 THEN {<<>>}
  ELSE LET shorter == SeqsUpTo(S, n - 1)
       IN  shorter \cup {Append(q, x) : q \in shorter, x \in S}

\* The resolved configurations: maxCost > 0, remainingBudget >= 0 and
\* minOutputTokens > 0 when present (validateConfig).  The fields nothing
\* reads in a configuration take one value there: without a limit nothing
\* reads the fallback list, without autoDowngrade only its emptiness is
\* read, without a remaining budget nothing reads minOutputTokens.
LimitConfigs ==
  [maxCost : {NoValue}, strict : BOOLEAN, autoDowngrade : BOOLEAN,
   fallbackModels : {<<>>, <<"m2">>}]
  \cup [maxCost : {2}, strict : BOOLEAN, autoDowngrade : {FALSE},
        fallbackModels : {<<>>, <<"m2">>}]
  \cup [maxCost : {2}, strict : BOOLEAN, autoDowngrade : {TRUE},
        fallbackModels : SeqsUpTo(FallbackPool, MaxFallbacks)]

BudgetConfigs ==
  [remainingBudget : {NoValue}, minOutputTokens : {500}]
  \cup [remainingBudget : {2}, minOutputTokens : {2, 500}]

Configs ==
  {[maxCost |-> l.maxCost, autoDowngrade |-> l.autoDowngrade,
    fallbackModels |-> l.fallbackModels, remainingBudget |-> b.remainingBudget,
    minOutputTokens |-> b.minOutputTokens, strict |-> l.strict, failOpen |-> f] :
     l \in LimitConfigs, b \in BudgetConfigs, f \in BOOLEAN}

\* The requests a caller may pass.
Requests == [model : {"m1"}, max_tokens : {NoValue, 3}, stream : {FALSE}]

\* At most one hook misbehaves in a run.
ThrowSets == {{}} \cup {{h} : h \in Hooks}

Init ==
  /\ config \in Configs
  /\ throws \in ThrowSets
  /\ request \in Requests
  /\ heap = <<request>>
  /\ pc = "start"
  /\ site = "none"
  /\ model = "none"
  /\ workingArgs = NoValue
  /\ queried = "none"
  /\ oracleCalls = <<>>
  /\ oracleReplies = <<>>
  /\ estimate = NULL
  /\ originalEstimate = NULL
  /\ providerFallbacks = <<>>
  /\ attemptedModels = <<>>
  /\ fallbackResult = NULL
  /\ evalResult = NULL
  /\ result = NULL
  /\ exc = NULL
  /\ caught = NULL
  /\ limitCalls = <<>>
  /\ downgradeCalls = <<>>
  /\ cappedCalls = <<>>
  /\ logCalls = <<>>
  /\ consoleErrors = <<>>
  /\ providerCalls = <<>>
  /\ response = NULL
  /\ outcome = NULL
  /\ direct = NULL
  /\ running = 0
  /\ suspended = NULL
  /\ replay = NULL
  /\ stream = NULL

\* The hook invocations `calls` are made.
Invoked(calls) ==
  /\ limitCalls' = limitCalls \o calls.limit
  /\ downgradeCalls' = downgradeCalls \o calls.down
  /\ cappedCalls' = cappedCalls \o calls.capped
  /\ logCalls' = logCalls \o calls.log

\* estimateCost(messages, m, config) is entered from `from`: the oracle is
\* queried and the call waits for its answer.
Query(messages, m, from) ==
  /\ oracleCalls' = Append(oracleCalls, [messages |-> messages, model |-> m, from |-> from])
  /\ queried' = m
  /\ site' = from
  /\ pc' = "estimateCost"
  /\ UNCHANGED oracleReplies

(***************************************************************************)
(* The wrapped call.                                                       *)
(***************************************************************************)
\* interceptedMethod is called: the request is cloned, model and messages
\* are extracted, safeEvaluateRequest and evaluateRequest are entered and
\* the original model's estimate is asked for.
Invoke ==
  /\ pc = "start"
  /\ heap' = NewObject(heap, originalArgs, cloneArgs(heap[originalArgs]))
  /\ workingArgs' = Len(heap) + 1
  /\ model' = extractModel(heap'[workingArgs'])
  /\ Query(Messages, model', "evaluateRequest")
  /\ UNCHANGED <<caught, envVars, hookVars, searchVars, estimate, evalResult, result,
                 exc, consoleErrors, providerCalls, response, outcome, direct>>

\* Where an exception leaving estimateCost is caught: the calls made inside
\* safeEvaluateRequest's try are caught by it; the ones interceptedMethod
\* makes after the provider call are not caught at all; the one the wrapped
\* stream makes is caught by its own try, which ignores it.
Handler(from) ==
  CASE from \in {"logCompletion", "streaming"} -> "uncaught"
    [] from = "streamLog" -> "done"
    [] OTHER -> "catch"

\* The answers the oracle may give to the awaited query: any answer; for
\* concurrent calls a failure, the lowest or the highest cost; for a call
\* evaluated again, the answer the call was given before.
OracleAnswers ==
  IF replay # NULL
  THEN IF Len(oracleReplies) < Len(replay.oracle)
       THEN {replay.oracle[Len(oracleReplies) + 1]}
       ELSE {}
  ELSE IF running = 0 THEN OracleReplies(queried)
  ELSE {reply \in OracleReplies(queried) :
          reply.ok => reply.inputCost \in {1, MaxCostUnits}}

\* The answers the provider may give: any answer, or, for a call evaluated
\* again, the answer the call was given before.
ProviderAnswers ==
  IF isStreaming(request) THEN StreamReplies
  ELSE IF replay = NULL THEN ProviderReplies
  ELSE {reply \in ProviderReplies :
          IF reply.ok THEN replay.observed.response = reply.response
          ELSE replay.observed.response = NULL}

\* The oracle answers; estimateCost returns to its caller or throws.
EstimateCost ==
  /\ pc = "estimateCost"
  /\ \E reply \in OracleAnswers :
       LET r == estimateCost(reply, queried, config, throws)
       IN  /\ oracleReplies' = Append(oracleReplies, reply)
           /\ Invoked(r.calls)
           /\ IF r.exc # NULL
              THEN /\ exc' = r.exc
                   /\ pc' = Handler(site)
                   /\ UNCHANGED estimate
              ELSE /\ estimate' = r.ret
                   /\ pc' = site
                   /\ UNCHANGED exc
  /\ UNCHANGED <<caught, envVars, heap, site, callVars, queried, oracleCalls, searchVars,
                 evalResult, result, consoleErrors, providerCalls, response,
                 outcome, direct>>

\* evaluateRequest with the original model's estimate, and
\* attemptAutoDowngrade up to the first fallback probe.
EvaluateRequest ==
  /\ pc = "evaluateRequest"
  /\ IF estimate = NULL \/ withinLimit(estimate, config)
     THEN /\ evalResult' = Proceed(workingArgs)
          /\ pc' = "safeEvaluateRequest"
          /\ UNCHANGED <<hookVars, oracleVars, site, searchVars, exc>>
     ELSE IF ~hasDowngradePath(config, Provider)
     THEN LET r == limitBreach(estimate, model, config, workingArgs, throws)
          IN  /\ Invoked(r.calls)
              /\ originalEstimate' = estimate
              /\ IF r.exc # NULL
                 THEN exc' = r.exc /\ pc' = "catch" /\ UNCHANGED evalResult
                 ELSE evalResult' = r.ret /\ pc' = "safeEvaluateRequest" /\ UNCHANGED exc
              /\ UNCHANGED <<oracleVars, site, providerFallbacks, attemptedModels,
                             fallbackResult>>
     ELSE LET filtered == filterFallbacksByProvider(config.fallbackModels, Provider)
          IN  /\ originalEstimate' = estimate
              /\ providerFallbacks' = filtered
              /\ attemptedModels' = <<filtered[1]>>
              /\ Query(Messages, filtered[1], "findAffordableFallback")
              /\ UNCHANGED <<hookVars, fallbackResult, evalResult, exc>>
  /\ UNCHANGED <<caught, envVars, heap, callVars, estimate, result, consoleErrors,
                 providerCalls, response, outcome, direct>>

\* findAffordableFallback with the estimate of the fallback just probed:
\* return it, or probe the next one, or return that none fits.
FindAffordableFallback ==
  /\ pc = "findAffordableFallback"
  /\ IF estimate # NULL /\ fitsMaxCost(estimate, config.maxCost)
     THEN /\ fallbackResult' =
               Found(attemptedModels[Len(attemptedModels)], estimate, attemptedModels)
          /\ pc' = "attemptAutoDowngrade"
          /\ UNCHANGED <<oracleVars, site, attemptedModels>>
     ELSE IF Len(attemptedModels) < Len(providerFallbacks)
     THEN LET fallbackModel == providerFallbacks[Len(attemptedModels) + 1]
          IN  /\ attemptedModels' = Append(attemptedModels, fallbackModel)
              /\ Query(Messages, fallbackModel, "findAffordableFallback")
              /\ UNCHANGED fallbackResult
     ELSE /\ fallbackResult' = NotFound(attemptedModels)
          /\ pc' = "attemptAutoDowngrade"
          /\ UNCHANGED <<oracleVars, site, attemptedModels>>
  /\ UNCHANGED <<caught, envVars, heap, callVars, estimate, originalEstimate,
                 providerFallbacks, evalResult, result, exc, hookVars,
                 consoleErrors, providerCalls, response, outcome, direct>>

\* attemptAutoDowngrade with the search's result.
AttemptAutoDowngrade ==
  /\ pc = "attemptAutoDowngrade"
  /\ LET modifiedArgs == Len(heap) + 1
         r == attemptAutoDowngrade(model, originalEstimate, fallbackResult, config,
                                   workingArgs, modifiedArgs, throws)
     IN  /\ heap' = IF fallbackResult.found
                    THEN NewObject(heap, workingArgs,
                                   setModel(heap[workingArgs], fallbackResult.model))
                    ELSE heap
         /\ Invoked(r.calls)
         /\ IF r.exc # NULL
            THEN exc' = r.exc /\ pc' = "catch" /\ UNCHANGED evalResult
            ELSE evalResult' = r.ret /\ pc' = "safeEvaluateRequest" /\ UNCHANGED exc
  /\ UNCHANGED <<caught, envVars, site, callVars, oracleVars, estimate, searchVars, result,
                 consoleErrors, providerCalls, response, outcome, direct>>

\* safeEvaluateRequest with evaluateRequest's result: return a rejection as
\* it is, or ask for the effective model's estimate when a remaining budget
\* is configured, or return the request to proceed with.
SafeEvaluateRequest ==
  /\ pc = "safeEvaluateRequest"
  /\ IF ~evalResult.proceed
     THEN /\ result' = evalResult
          /\ pc' = "interceptedMethod"
          /\ UNCHANGED <<oracleVars, site>>
     ELSE IF config.remainingBudget # NoValue
     THEN /\ Query(Messages, effectiveModel(evalResult, model), "outputCap")
          /\ UNCHANGED result
     ELSE /\ result' = [evalResult EXCEPT
                          !.modifiedArgs = IF @ = NoValue THEN workingArgs ELSE @]
          /\ pc' = "interceptedMethod"
          /\ UNCHANGED <<oracleVars, site>>
  /\ UNCHANGED <<caught, envVars, heap, callVars, estimate, searchVars, evalResult, exc,
                 hookVars, consoleErrors, providerCalls, response, outcome, direct>>

\* safeEvaluateRequest with the estimate for the output cap: the cap is
\* applied to the request evaluateRequest returned.
OutputCap ==
  /\ pc = "outputCap"
  /\ LET finalArgs == IF evalResult.modifiedArgs = NoValue THEN workingArgs
                      ELSE evalResult.modifiedArgs
         r == applyOutputCap(estimate, config, heap[finalArgs], throws)
         capped == r.calls.capped # <<>>
     IN  /\ heap' = IF capped
                    THEN NewObject(heap, finalArgs,
                                   setMaxTokens(heap[finalArgs], r.calls.capped[1].maxTokens))
                    ELSE heap
         /\ Invoked(r.calls)
         /\ IF r.exc # NULL
            THEN exc' = r.exc /\ pc' = "catch" /\ UNCHANGED result
            ELSE /\ result' =
                      [evalResult EXCEPT
                         !.modifiedArgs = IF capped THEN Len(heap) + 1 ELSE finalArgs,
                         !.outputCapped = IF r.ret.outputCapped # NULL
                                          THEN r.ret.outputCapped ELSE @]
                 /\ pc' = "interceptedMethod"
                 /\ UNCHANGED exc
  /\ UNCHANGED <<caught, envVars, site, callVars, oracleVars, estimate, searchVars,
                 evalResult, consoleErrors, providerCalls, response, outcome, direct>>

\* safeEvaluateRequest's catch block.
Catch ==
  /\ pc = "catch"
  /\ LET r == recover(exc, config, workingArgs, throws)
     IN  /\ caught' = exc
         /\ logCalls' = logCalls \o r.log
         /\ consoleErrors' = consoleErrors \o r.console
         /\ IF r.exc # NULL
            THEN pc' = "uncaught" /\ UNCHANGED result
            ELSE result' = r.ret /\ pc' = "interceptedMethod"
  /\ UNCHANGED <<envVars, heap, site, callVars, oracleVars, estimate, searchVars,
                 evalResult, exc, limitCalls, downgradeCalls, cappedCalls,
                 providerCalls, response, outcome, direct>>

\* An exception leaves interceptedMethod: the caller's promise rejects.
Uncaught ==
  /\ pc = "uncaught"
  /\ outcome' = [kind |-> "rejected", error |-> exc]
  /\ pc' = "done"
  /\ UNCHANGED <<caught, envVars, heap, site, callVars, oracleVars, estimate, searchVars,
                 evalResult, result, exc, hookVars, consoleErrors, providerCalls,
                 response, direct>>

\* interceptedMethod with safeEvaluateRequest's result: throw the rejection,
\* or call the provider's own method with the request to proceed with.
InterceptedMethod ==
  /\ pc = "interceptedMethod"
  /\ IF rejects(result)
     THEN /\ outcome' = [kind |-> "rejected", error |-> result.error]
          /\ pc' = "done"
          /\ UNCHANGED <<workingArgs, providerCalls>>
     ELSE /\ workingArgs' = IF result.modifiedArgs # NoValue
                            THEN result.modifiedArgs ELSE workingArgs
          /\ providerCalls' = Append(providerCalls, heap[workingArgs'])
          /\ pc' = "originalMethod"
          /\ UNCHANGED outcome
  /\ UNCHANGED <<caught, envVars, heap, site, model, oracleVars, estimate, searchVars,
                 evalResult, result, exc, hookVars, consoleErrors, response, direct>>

\* The provider answers: its failure is the caller's; its response is
\* returned, after the completion log unless the evaluation failed open; for
\* a streaming request the input tokens are asked for first.
OriginalMethod ==
  /\ pc = "originalMethod"
  /\ \E reply \in ProviderAnswers :
       IF ~reply.ok
       THEN /\ outcome' = [kind |-> "rejected", error |-> reply.error]
            /\ pc' = "done"
            /\ UNCHANGED <<response, oracleVars, site>>
       ELSE /\ response' = reply.response
            /\ IF isStreaming(heap[workingArgs])
               THEN /\ Query(Messages, effectiveModel(result, model), "streaming")
                    /\ UNCHANGED outcome
               ELSE IF ~result.failedOpen
               THEN /\ Query(Messages, effectiveModel(result, model), "logCompletion")
                    /\ UNCHANGED outcome
               ELSE /\ outcome' = [kind |-> "resolved", value |-> reply.response]
                    /\ pc' = "done"
                    /\ UNCHANGED <<oracleVars, site>>
  /\ UNCHANGED <<caught, envVars, heap, callVars, estimate, searchVars, evalResult, result,
                 exc, hookVars, consoleErrors, providerCalls, direct>>

\* interceptedMethod with the estimate for the completion log: the log line
\* goes to onLog (logRequestCompletion) and the response is returned.
LogCompletion ==
  /\ pc = "logCompletion"
  /\ IF estimate # NULL
     THEN /\ logCalls' = Append(logCalls,
                                completionMessage(effectiveModel(result, model),
                                                  estimate, response))
          /\ IF "onLog" \in throws
             THEN exc' = HookError("onLog") /\ pc' = "uncaught" /\ UNCHANGED outcome
             ELSE /\ outcome' = [kind |-> "resolved", value |-> response]
                  /\ pc' = "done"
                  /\ UNCHANGED exc
     ELSE /\ outcome' = [kind |-> "resolved", value |-> response]
          /\ pc' = "done"
          /\ UNCHANGED <<logCalls, exc>>
  /\ UNCHANGED <<caught, envVars, heap, site, callVars, oracleVars, estimate, searchVars,
                 evalResult, result, limitCalls, downgradeCalls, cappedCalls,
                 consoleErrors, providerCalls, response, direct>>

(***************************************************************************)
(* Direct calls of the exported synchronous functions.                     *)
(***************************************************************************)
\* The estimates a caller may hand to evaluateMaxCost.
Estimates ==
  {[tokens |-> t, inputCost |-> c, outputCost |-> getModel("m1").outputPrice] :
     t \in TokenCounts, c \in 1..MaxCostUnits}

\* evaluateMaxCost(estimate, model, config, args) is called.
EvaluateMaxCost ==
  /\ pc = "start"
  /\ \E est \in Estimates \cup {NULL} :
       LET r == evaluateMaxCost(est, extractModel(heap[originalArgs]), config,
                                originalArgs, throws)
       IN  /\ direct' = [fn |-> "evaluateMaxCost", estimate |-> est,
                         model |-> extractModel(heap[originalArgs]),
                         ret |-> r.ret, exc |-> r.exc]
           /\ Invoked(r.calls)
  /\ pc' = "returned"
  /\ UNCHANGED <<caught, envVars, heap, site, callVars, oracleVars, estimate, searchVars,
                 evalResult, result, exc, consoleErrors, providerCalls, response,
                 outcome>>

\* resolveConfig(): the configuration when no option is given.  The pure
\* functions below read nothing of the configuration but the oracle's
\* table, and are called under this one.
DefaultConfig ==
  [maxCost |-> NoValue, autoDowngrade |-> FALSE, fallbackModels |-> <<>>,
   remainingBudget |-> NoValue, minOutputTokens |-> 500, strict |-> FALSE,
   failOpen |-> TRUE]

\* The lists and providers a caller may hand to filterFallbacksByProvider;
\* "zz" is a model the oracle does not know.
FilterInputs ==
  [fallbackModels : SeqsUpTo(FallbackPool \cup {"zz"}, MaxFallbacks + 1),
   provider : {"openai", "anthropic"}]

\* filterFallbacksByProvider(fallbackModels, provider, config) is called.
FilterFallbacksByProvider ==
  /\ pc = "start"
  /\ config = DefaultConfig
  /\ throws = {}
  /\ \E input \in FilterInputs :
       direct' = [fn |-> "filterFallbacksByProvider", estimate |-> NULL,
                  model |-> "none", input |-> input,
                  ret |-> filterFallbacksByProvider(input.fallbackModels, input.provider),
                  exc |-> NULL]
  /\ pc' = "returned"
  /\ UNCHANGED <<caught, envVars, heap, site, callVars, oracleVars, estimate, searchVars,
                 evalResult, result, exc, hookVars, consoleErrors, providerCalls,
                 response, outcome>>

\* Output prices per MILLION tokens a caller may hand to
\* calculateMaxAffordableOutputTokens: negative, zero, dividing the budget
\* exactly, not exactly, and above one cost unit per token.
OutputPrices == {0 - 250000, 0, 250000, 300000, 500000, 3 * MILLION}

BudgetInputs ==
  [remainingBudget : 0..MaxCostUnits, inputCost : 0..MaxCostUnits,
   outputPrice : OutputPrices]

\* calculateMaxAffordableOutputTokens(remainingBudget, inputCost,
\* outputPrice) is called.
CalculateMaxAffordableOutputTokens ==
  /\ pc = "start"
  /\ config = DefaultConfig
  /\ throws = {}
  /\ \E input \in BudgetInputs :
       direct' = [fn |-> "calculateMaxAffordableOutputTokens", estimate |-> NULL,
                  model |-> "none", input |-> input,
                  ret |-> calculateMaxAffordableOutputTokens(
                            input.remainingBudget, input.inputCost, input.outputPrice),
                  exc |-> NULL]
  /\ pc' = "returned"
  /\ UNCHANGED <<caught, envVars, heap, site, callVars, oracleVars, estimate, searchVars,
                 evalResult, result, exc, hookVars, consoleErrors, providerCalls,
                 response, outcome>>

\* The estimates and requested output lengths a caller may hand to
\* evaluateOutputCap: no requested length, zero, below, between and above
\* the affordable lengths.
CapEstimates ==
  [tokens : TokenCounts, inputCost : 1..MaxCostUnits, outputCost : {0, 250000, 500000}]

RequestedLengths == {NoValue, 0, 1, 3, 9}

\* evaluateOutputCap(estimate, model, config, currentMaxTokens) is called;
\* it reads remainingBudget, minOutputTokens and strict of the
\* configuration, whose other fields are the defaults here.
EvaluateOutputCap ==
  /\ pc = "start"
  /\ throws = {}
  /\ config.maxCost = DefaultConfig.maxCost
  /\ config.autoDowngrade = DefaultConfig.autoDowngrade
  /\ config.fallbackModels = DefaultConfig.fallbackModels
  /\ config.failOpen = DefaultConfig.failOpen
  /\ \E est \in CapEstimates \cup {NULL}, currentMaxTokens \in RequestedLengths :
       direct' = [fn |-> "evaluateOutputCap", estimate |-> NULL, model |-> "none",
                  input |-> [estimate |-> est, currentMaxTokens |-> currentMaxTokens],
                  ret |-> evaluateOutputCap(est, config, currentMaxTokens),
                  exc |-> NULL]
  /\ pc' = "returned"
  /\ UNCHANGED <<caught, envVars, heap, site, callVars, oracleVars, estimate, searchVars,
                 evalResult, result, exc, hookVars, consoleErrors, providerCalls,
                 response, outcome>>

\* The options a caller may hand to withGram: every field may be left out;
\* the numbers are negative, zero or positive.
Options ==
  [maxCost : {{}, {-1}, {0}, {2}},
   remainingBudget : {{}, {-1}, {0}, {2}},
   minOutputTokens : {{}, {-1}, {0}, {2}},
   strict : {{}, {TRUE}, {FALSE}},
   failOpen : {{}, {TRUE}, {FALSE}},
   autoDowngrade : {{}, {TRUE}, {FALSE}},
   fallbackModels : {{}, {<<>>}, {<<"m2">>}}]

\* The clients a caller may wrap; "other" is not a supported SDK.
Clients == {"openai", "other"}

\* withGram(client, options) is called.
WithGram ==
  /\ pc = "start"
  /\ config = DefaultConfig
  /\ throws \in {{}, {"onLog"}}
  /\ request.max_tokens = NoValue
  /\ \E client \in Clients, options \in Options :
       LET r == withGram(client, options, throws)
       IN  /\ direct' = [fn |-> "withGram", estimate |-> NULL, model |-> "none",
                         input |-> [client |-> client, options |-> options],
                         ret |-> r.ret, exc |-> r.exc]
           /\ Invoked(r.calls)
  /\ pc' = "returned"
  /\ UNCHANGED <<caught, envVars, heap, site, callVars, oracleVars, estimate, searchVars,
                 evalResult, result, exc, consoleErrors, providerCalls, response,
                 outcome>>

Next ==
  \/ Invoke
  \/ EstimateCost
  \/ EvaluateRequest
  \/ FindAffordableFallback
  \/ AttemptAutoDowngrade
  \/ SafeEvaluateRequest
  \/ OutputCap
  \/ Catch
  \/ Uncaught
  \/ InterceptedMethod
  \/ OriginalMethod
  \/ LogCompletion
  \/ EvaluateMaxCost
  \/ FilterFallbacksByProvider
  \/ CalculateMaxAffordableOutputTokens
  \/ EvaluateOutputCap
  \/ WithGram

Spec == Init /\ [][Next]_vars

\* The oracle and the provider settle every call they are sent, and a call
\* that can continue does: the specification of the runs that do not stop
\* halfway.  Its steps are those of one wrapped call.
WrappedCall ==
  \/ Invoke
  \/ EstimateCost
  \/ EvaluateRequest
  \/ FindAffordableFallback
  \/ AttemptAutoDowngrade
  \/ SafeEvaluateRequest
  \/ OutputCap
  \/ Catch
  \/ Uncaught
  \/ InterceptedMethod
  \/ OriginalMethod
  \/ LogCompletion

SpecLive == Init /\ [][WrappedCall]_vars /\ WF_vars(WrappedCall)

(***************************************************************************)
(* Streaming responses.                                                    *)
(***************************************************************************)
\* The completion message of a stream; the input cost is computed as
\* inputTokens * inputCost / inputTokens, which is not a number (NoValue)
\* when inputTokens is 0.
streamMessage(loggedModel, inputTokens, outputTokens, est) ==
  [kind |-> "completion", model |-> loggedModel, inputTokens |-> inputTokens,
   outputTokens |-> outputTokens,
   totalCostMillionths |-> IF inputTokens = 0 THEN NoValue
                           ELSE est.inputCost * MILLION + outputTokens * est.outputCost]

\* interceptedMethod with the estimate that gives the input tokens: the
\* wrapped stream is returned to the caller.
ReturnStream ==
  /\ pc = "streaming"
  /\ stream' = [model |-> effectiveModel(result, model),
                inputTokens |-> IF estimate # NULL THEN estimate.tokens ELSE 0,
                skipLogging |-> result.failedOpen,
                yielded |-> <<>>, content |-> <<>>, outputTokens |-> NoValue]
  /\ outcome' = [kind |-> "resolved", value |-> "wrapped stream"]
  /\ pc' = "consuming"
  /\ UNCHANGED <<caught, config, throws, request, running, suspended, replay, heap, site,
                 callVars, oracleVars, estimate, searchVars, evalResult, result, exc,
                 hookVars, consoleErrors, providerCalls, response, direct>>

\* The consumer asks for the next chunk: the provider's next chunk is
\* yielded, its text delta kept; after the last one the output tokens are
\* asked for, unless logging is skipped.
NextChunk ==
  /\ pc = "consuming"
  /\ IF Len(stream.yielded) < Len(response.chunks)
     THEN LET chunk == response.chunks[Len(stream.yielded) + 1]
          IN  /\ stream' = [stream EXCEPT
                              !.yielded = Append(@, chunk),
                              !.content = IF chunk.delta # "" THEN Append(@, chunk.delta)
                                          ELSE @]
              /\ pc' = "consuming"
     ELSE /\ pc' = IF stream.skipLogging THEN "done" ELSE "countTokens"
          /\ UNCHANGED stream
  /\ UNCHANGED <<caught, config, throws, request, running, suspended, replay, heap, site,
                 callVars, oracleVars, estimate, searchVars, evalResult, result, exc,
                 hookVars, consoleErrors, providerCalls, response, outcome, direct>>

\* The consumer stops before the stream's end: the generator returns.
StopConsuming ==
  /\ pc = "consuming"
  /\ Len(stream.yielded) < Len(response.chunks)
  /\ pc' = "done"
  /\ UNCHANGED <<caught, envVars, heap, site, callVars, oracleVars, estimate, searchVars,
                 evalResult, result, exc, hookVars, consoleErrors, providerCalls,
                 response, outcome, direct>>

\* gram.countTokens answers: its failure is ignored; with the output tokens
\* the estimate for the log is asked for.
CountTokens ==
  /\ pc = "countTokens"
  /\ \E reply \in CountReplies :
       IF reply.ok
       THEN /\ stream' = [stream EXCEPT !.outputTokens = reply.tokens]
            /\ Query(<<>>, stream.model, "streamLog")
       ELSE /\ pc' = "done"
            /\ UNCHANGED <<stream, oracleVars, site>>
  /\ UNCHANGED <<caught, config, throws, request, running, suspended, replay, heap,
                 callVars, estimate, searchVars, evalResult, result, exc, hookVars,
                 consoleErrors, providerCalls, response, outcome, direct>>

\* The wrapped stream with the estimate for the log: the log line goes to
\* onLog, whose exception is ignored.
StreamLog ==
  /\ pc = "streamLog"
  /\ logCalls' = IF estimate # NULL
                 THEN Append(logCalls,
                             streamMessage(stream.model, stream.inputTokens,
                                           stream.outputTokens, estimate))
                 ELSE logCalls
  /\ pc' = "done"
  /\ UNCHANGED <<caught, envVars, heap, site, callVars, oracleVars, estimate, searchVars,
                 evalResult, result, exc, limitCalls, downgradeCalls, cappedCalls,
                 consoleErrors, providerCalls, response, outcome, direct>>

\* The configurations of the streaming calls: with and without a ceiling,
\* a fallback and a remaining budget.
StreamingConfigs ==
  [maxCost : {NoValue, 2}, autoDowngrade : BOOLEAN, fallbackModels : {<<"m2">>},
   remainingBudget : {NoValue, 2}, minOutputTokens : {2}, strict : {TRUE},
   failOpen : BOOLEAN]

InitStreaming ==
  /\ config \in StreamingConfigs
  /\ throws \in {{}, {"onLog"}, {"onDowngrade"}}
  /\ request \in [model : {"m1"}, max_tokens : {NoValue}, stream : {TRUE}]
  /\ heap = <<request>>
  /\ pc = "start"
  /\ site = "none"
  /\ model = "none"
  /\ workingArgs = NoValue
  /\ queried = "none"
  /\ oracleCalls = <<>>
  /\ oracleReplies = <<>>
  /\ estimate = NULL
  /\ originalEstimate = NULL
  /\ providerFallbacks = <<>>
  /\ attemptedModels = <<>>
  /\ fallbackResult = NULL
  /\ evalResult = NULL
  /\ result = NULL
  /\ exc = NULL
  /\ caught = NULL
  /\ limitCalls = <<>>
  /\ downgradeCalls = <<>>
  /\ cappedCalls = <<>>
  /\ logCalls = <<>>
  /\ consoleErrors = <<>>
  /\ providerCalls = <<>>
  /\ response = NULL
  /\ outcome = NULL
  /\ direct = NULL
  /\ running = 0
  /\ suspended = NULL
  /\ replay = NULL
  /\ stream = NULL

NextStreaming ==
  \/ Invoke
  \/ EstimateCost
  \/ EvaluateRequest
  \/ FindAffordableFallback
  \/ AttemptAutoDowngrade
  \/ SafeEvaluateRequest
  \/ OutputCap
  \/ Catch
  \/ Uncaught
  \/ InterceptedMethod
  \/ OriginalMethod
  \/ ReturnStream
  \/ NextChunk
  \/ StopConsuming
  \/ CountTokens
  \/ StreamLog

SpecStreaming == InitStreaming /\ [][NextStreaming]_vars

(***************************************************************************)
(* Concurrent calls through one wrapped client.  interceptedMethod is      *)
(* called twice with the same request object; a call runs from one await   *)
(* to the next, and the event loop resumes either call when an answer      *)
(* arrives.  The configuration and the request objects are shared; every   *)
(* other variable is a local of one call and is kept in its frame while    *)
(* the other call runs.  When both calls have ended, one of them is        *)
(* evaluated again, alone on request objects of its own, against the       *)
(* answers it was given.                                                   *)
(***************************************************************************)
\* The locals of the running call.
Frame ==
  [pc |-> pc, site |-> site, model |-> model, workingArgs |-> workingArgs,
   queried |-> queried, oracleCalls |-> oracleCalls, oracleReplies |-> oracleReplies,
   estimate |-> estimate, originalEstimate |-> originalEstimate,
   providerFallbacks |-> providerFallbacks, attemptedModels |-> attemptedModels,
   fallbackResult |-> fallbackResult, evalResult |-> evalResult, result |-> result,
   exc |-> exc, caught |-> caught, limitCalls |-> limitCalls,
   downgradeCalls |-> downgradeCalls, cappedCalls |-> cappedCalls,
   logCalls |-> logCalls, consoleErrors |-> consoleErrors,
   providerCalls |-> providerCalls, response |-> response, outcome |-> outcome]

\* The locals of a call that has not been made yet.
NewFrame ==
  [pc |-> "start", site |-> "none", model |-> "none", workingArgs |-> NoValue,
   queried |-> "none", oracleCalls |-> <<>>, oracleReplies |-> <<>>,
   estimate |-> NULL, originalEstimate |-> NULL, providerFallbacks |-> <<>>,
   attemptedModels |-> <<>>, fallbackResult |-> NULL, evalResult |-> NULL,
   result |-> NULL, exc |-> NULL, caught |-> NULL, limitCalls |-> <<>>,
   downgradeCalls |-> <<>>, cappedCalls |-> <<>>, logCalls |-> <<>>,
   consoleErrors |-> <<>>, providerCalls |-> <<>>, response |-> NULL,
   outcome |-> NULL]

\* The locals become those of frame f.
Restore(f) ==
  /\ pc' = f.pc
  /\ site' = f.site
  /\ model' = f.model
  /\ workingArgs' = f.workingArgs
  /\ queried' = f.queried
  /\ oracleCalls' = f.oracleCalls
  /\ oracleReplies' = f.oracleReplies
  /\ estimate' = f.estimate
  /\ originalEstimate' = f.originalEstimate
  /\ providerFallbacks' = f.providerFallbacks
  /\ attemptedModels' = f.attemptedModels
  /\ fallbackResult' = f.fallbackResult
  /\ evalResult' = f.evalResult
  /\ result' = f.result
  /\ exc' = f.exc
  /\ caught' = f.caught
  /\ limitCalls' = f.limitCalls
  /\ downgradeCalls' = f.downgradeCalls
  /\ cappedCalls' = f.cappedCalls
  /\ logCalls' = f.logCalls
  /\ consoleErrors' = f.consoleErrors
  /\ providerCalls' = f.providerCalls
  /\ response' = f.response
  /\ outcome' = f.outcome

\* The value of request object ref, NULL for no object.
Deref(objects, ref) == IF ref = NoValue THEN NULL ELSE objects[ref]

\* An EvaluationResult with the value of its request in place of the object.
ResultValue(objects, r) ==
  IF r = NULL THEN NULL ELSE [r EXCEPT !.modifiedArgs = Deref(objects, r.modifiedArgs)]

\* What a call did and produced, as its caller, the hooks, the oracle and
\* the provider see it: results carry request values, not objects.
Observation(f, objects) ==
  [result |-> ResultValue(objects, f.result),
   evalResult |-> ResultValue(objects, f.evalResult),
   workingArgs |-> Deref(objects, f.workingArgs),
   originalArgs |-> objects[originalArgs],
   oracleCalls |-> f.oracleCalls, oracleReplies |-> f.oracleReplies,
   limitCalls |-> f.limitCalls, downgradeCalls |-> f.downgradeCalls,
   cappedCalls |-> f.cappedCalls, logCalls |-> f.logCalls,
   consoleErrors |-> f.consoleErrors, providerCalls |-> f.providerCalls,
   response |-> f.response, outcome |-> f.outcome, caught |-> f.caught]

\* The points where interceptedMethod waits for an answer, or has ended.
Awaiting(f) == f.pc \in {"estimateCost", "originalMethod", "done"}

\* The configurations of the concurrent calls: a ceiling with a fallback
\* list and a remaining budget, so that every stage acts.
ConcurrentConfigs ==
  [maxCost : {2}, autoDowngrade : {TRUE}, fallbackModels : {<<"m2">>},
   remainingBudget : {2}, minOutputTokens : {500}, strict : {TRUE},
   failOpen : BOOLEAN]

\* Both calls are made with one request object, which gives a length.
InitConcurrent ==
  /\ config \in ConcurrentConfigs
  /\ throws \in {{}, {"onDowngrade"}}
  /\ config.failOpen \/ throws = {}
  /\ request \in {r \in Requests : r.max_tokens # NoValue}
  /\ heap = <<request>>
  /\ pc = "start"
  /\ site = "none"
  /\ model = "none"
  /\ workingArgs = NoValue
  /\ queried = "none"
  /\ oracleCalls = <<>>
  /\ oracleReplies = <<>>
  /\ estimate = NULL
  /\ originalEstimate = NULL
  /\ providerFallbacks = <<>>
  /\ attemptedModels = <<>>
  /\ fallbackResult = NULL
  /\ evalResult = NULL
  /\ result = NULL
  /\ exc = NULL
  /\ caught = NULL
  /\ limitCalls = <<>>
  /\ downgradeCalls = <<>>
  /\ cappedCalls = <<>>
  /\ logCalls = <<>>
  /\ consoleErrors = <<>>
  /\ providerCalls = <<>>
  /\ response = NULL
  /\ outcome = NULL
  /\ direct = NULL
  /\ running = 1
  /\ suspended = NewFrame
  /\ replay = NULL
  /\ stream = NULL

\* The running call waits or has ended, and the event loop runs the other
\* call: its first step when it has not been made, its continuation when
\* its answer arrives.
Resume ==
  /\ running # 0
  /\ replay = NULL
  /\ Awaiting(Frame)
  /\ suspended.pc # "done"
  /\ suspended' = Frame
  /\ Restore(suspended)
  /\ running' = 3 - running
  /\ UNCHANGED <<config, throws, request, heap, direct, replay, stream>>

\* Both calls have ended: one of them is evaluated again, alone, with the
\* request as the caller passed it and the answers the call was given.
EvaluateAlone ==
  /\ running # 0
  /\ replay = NULL
  /\ pc = "done"
  /\ suspended.pc = "done"
  /\ \E call \in {1, 2} :
       LET f == IF call = running THEN Frame ELSE suspended
       IN  /\ replay' = [call |-> call, oracle |-> f.oracleReplies,
                         observed |-> Observation(f, heap)]
           /\ running' = call
  /\ heap' = <<request>>
  /\ Restore(NewFrame)
  /\ suspended' = NULL
  /\ UNCHANGED <<config, throws, request, direct, stream>>

NextConcurrent ==
  \/ Invoke
  \/ EstimateCost
  \/ EvaluateRequest
  \/ FindAffordableFallback
  \/ AttemptAutoDowngrade
  \/ SafeEvaluateRequest
  \/ OutputCap
  \/ Catch
  \/ Uncaught
  \/ InterceptedMethod
  \/ OriginalMethod
  \/ LogCompletion
  \/ Resume
  \/ EvaluateAlone

SpecConcurrent == InitConcurrent /\ [][NextConcurrent]_vars

(***************************************************************************)
(* Properties.                                                             *)
(***************************************************************************)
\* The original model's estimate was obtained and exceeds the ceiling.
Breach ==
  /\ config.maxCost # NoValue
  /\ Len(oracleReplies) >= 1
  /\ oracleReplies[1].ok
  /\ oracleReplies[1].inputCost > config.maxCost

\* evaluateRequest has acted on the original model's estimate.
LimitChecked == Len(oracleReplies) >= 1 /\ pc # "evaluateRequest"

\* No fallback can be tried: autoDowngrade is off, or no configured
\* fallback is a model of the client's provider.
NoDowngradePath ==
  \/ ~config.autoDowngrade
  \/ \A i \in DOMAIN config.fallbackModels :
        \/ getModel(config.fallbackModels[i]) = NULL
        \/ getModel(config.fallbackModels[i]).provider # Provider

\* The queries findAffordableFallback issued, in order.
Probes == SelectSeq(oracleCalls, LAMBDA q : q.from = "findAffordableFallback")

\* A direct call of evaluateMaxCost was made with an estimate above the ceiling.
DirectBreach ==
  /\ direct # NULL
  /\ direct.estimate # NULL
  /\ config.maxCost # NoValue
  /\ direct.estimate.inputCost > config.maxCost

\* C1: an estimate strictly above the ceiling, strict mode, no downgrade
\* path: evaluateMaxCost, and evaluateRequest in a wrapped call, return
\* proceed=false with a GramLimitError whose fields are exactly (the
\* estimate's inputCost, the ceiling, the model evaluated); no request is
\* returned and onLimitExceeded is not invoked.
C1_StrictBlocksWithLimitError ==
  /\ (DirectBreach /\ config.strict) =>
        /\ direct.exc = NULL
        /\ direct.ret.proceed = FALSE
        /\ direct.ret.error =
             [kind |-> "GramLimitError", estimatedCost |-> direct.estimate.inputCost,
              maxCost |-> config.maxCost, model |-> direct.model]
        /\ direct.ret.modifiedArgs = NoValue
        /\ limitCalls = <<>>
  /\ (Breach /\ config.strict /\ NoDowngradePath /\ LimitChecked) =>
        /\ evalResult # NULL
        /\ evalResult.proceed = FALSE
        /\ evalResult.error =
             [kind |-> "GramLimitError", estimatedCost |-> oracleReplies[1].inputCost,
              maxCost |-> config.maxCost, model |-> request.model]
        /\ evalResult.modifiedArgs = NoValue
        /\ limitCalls = <<>>

\* C1's case: evaluateMaxCost blocked an estimate above the ceiling.
C1_Witness ==
  /\ DirectBreach
  /\ config.strict
  /\ direct.ret # NULL
  /\ direct.ret.proceed = FALSE

\* C2: when the pipeline rejects the request (GramLimitError or
\* GramDowngradeError), the provider's method is never called for that
\* call, the caller receives exactly that error, and the object the caller
\* passed still has the value it was passed with.
C2_RejectionPrecedesProviderCall ==
  (result # NULL /\ ~result.proceed) =>
    /\ result.error # NULL
    /\ result.error.kind \in {"GramLimitError", "GramDowngradeError"}
    /\ providerCalls = <<>>
    /\ response = NULL
    /\ heap[originalArgs] = request
    /\ pc \in {"interceptedMethod", "done"}
    /\ pc = "done" => outcome = [kind |-> "rejected", error |-> result.error]

\* C2's case: a wrapped call ended in the pipeline's rejection.
C2_Witness ==
  /\ pc = "done"
  /\ result # NULL
  /\ ~result.proceed
  /\ outcome.kind = "rejected"
  /\ outcome.error.kind = "GramDowngradeError"

\* C3: the original estimate exceeds the ceiling, autoDowngrade is on and
\* the fallback search found a model: the result is proceed=true, the
\* returned request's model is the chosen fallback, downgraded is
\* {from: original model, to: chosen model, savings} with
\* savings = originalCost - chosenCost >= 0, onDowngrade was invoked exactly
\* once with these three values and onLimitExceeded was not invoked.
C3_SuccessfulDowngrade ==
  (/\ Breach
   /\ config.autoDowngrade
   /\ fallbackResult # NULL
   /\ fallbackResult.found
   /\ pc # "attemptAutoDowngrade") =>
    LET savings == oracleReplies[1].inputCost - fallbackResult.estimate.inputCost
        downgraded == [from |-> request.model, to |-> fallbackResult.model,
                       savings |-> savings]
    IN  /\ evalResult # NULL
        /\ evalResult.proceed
        /\ heap[evalResult.modifiedArgs].model = fallbackResult.model
        /\ evalResult.downgraded = downgraded
        /\ savings >= 0
        /\ downgradeCalls = <<downgraded>>
        /\ limitCalls = <<>>

\* An oracle answer that does not make its model an affordable fallback.
Unfit(reply) == ~reply.ok \/ reply.inputCost > config.maxCost

\* C4: findAffordableFallback queries the oracle for the given models one
\* at a time in list order, each probe after the previous probe's answer;
\* it stops at the first model whose fresh estimate has inputCost <= ceiling
\* and returns it; the attempted list is the prefix of the given list up to
\* and including the returned model (the whole list when none fits), and
\* no model after the returned one is queried.
C4_FallbackSearchInOrder ==
  /\ Len(oracleCalls) - Len(oracleReplies) = (IF pc = "estimateCost" THEN 1 ELSE 0)
  /\ Len(Probes) = Len(attemptedModels)
  /\ Len(attemptedModels) <= Len(providerFallbacks)
  /\ \A i \in 1..Len(attemptedModels) :
        /\ attemptedModels[i] = providerFallbacks[i]
        /\ oracleCalls[i + 1].from = "findAffordableFallback"
        /\ oracleCalls[i + 1].model = providerFallbacks[i]
        /\ oracleCalls[i + 1].messages = Messages
  /\ \A i \in 1..(Len(attemptedModels) - 1) : Unfit(oracleReplies[i + 1])
  /\ fallbackResult # NULL =>
        LET n == Len(attemptedModels)
        IN  /\ fallbackResult.attemptedModels = attemptedModels
            /\ n >= 1
            /\ Len(oracleReplies) >= n + 1
            /\ IF fallbackResult.found
               THEN /\ fallbackResult.model = providerFallbacks[n]
                    /\ oracleReplies[n + 1].ok
                    /\ oracleReplies[n + 1].inputCost <= config.maxCost
                    /\ fallbackResult.estimate.inputCost = oracleReplies[n + 1].inputCost
               ELSE /\ attemptedModels = providerFallbacks
                    /\ Unfit(oracleReplies[n + 1])

\* C4's case: the search returned the first of two fallbacks and the call
\* ended without the second one having been queried.
C4_Witness ==
  /\ pc = "done"
  /\ fallbackResult # NULL
  /\ fallbackResult.found
  /\ Len(providerFallbacks) = 2
  /\ attemptedModels = <<providerFallbacks[1]>>
  /\ Len(Probes) = 1

\* C5: a hook that throws does not change the evaluation's outcome, and its
\* exception never reaches the caller: it is not what the caller's promise
\* rejects with, it is not what leaves a direct call, and it is not taken
\* for a failure of the evaluation.
C5_HookFailuresSwallowed ==
  /\ (outcome # NULL /\ outcome.kind = "rejected") => outcome.error.kind # "HookError"
  /\ direct # NULL => (direct.exc = NULL \/ direct.exc.kind # "HookError")
  /\ caught # NULL => caught.kind # "HookError"

\* C6: failOpen=true and a stage inside safeEvaluateRequest raised a
\* failure: safeEvaluateRequest does not throw; it logs the failure through
\* onLog and returns proceed=true with the request it was given,
\* failedOpen=true, and no downgrade or outputCap annotation.
C6_FailOpenRecovery ==
  (caught # NULL /\ config.failOpen) =>
    /\ result # NULL
    /\ result.proceed
    /\ result.failedOpen
    /\ result.error = NULL
    /\ result.modifiedArgs = originalArgs + 1
    /\ heap[result.modifiedArgs] = request
    /\ result.downgraded = NULL
    /\ result.outputCapped = NULL
    /\ Len(logCalls) >= 1
    /\ \E i \in DOMAIN logCalls :
         logCalls[i] = [kind |-> "evaluationError", reason |-> caught.message]
    /\ pc \notin {"catch", "uncaught"}
    /\ (outcome # NULL /\ outcome.kind = "rejected") => outcome.error # caught

\* C6's case: a failure was caught with failOpen=true and the provider was
\* called with the request as it was passed.
C6_Witness ==
  /\ caught # NULL
  /\ config.failOpen
  /\ result # NULL
  /\ result.failedOpen
  /\ providerCalls = <<request>>

\* The oracle's last answer was a failure, given inside safeEvaluateRequest.
OracleFailedInEvaluation ==
  /\ Len(oracleReplies) >= 1
  /\ Len(oracleReplies) = Len(oracleCalls)
  /\ ~oracleReplies[Len(oracleReplies)].ok
  /\ oracleCalls[Len(oracleCalls)].from # "logCompletion"

\* C7: failOpen=false: a failure of the oracle during estimateCost, or of
\* any stage inside safeEvaluateRequest, is rethrown to the caller as the
\* very same error; no result is returned, and no warning or recovery
\* message is logged.
C7_FailClosedRethrows ==
  ~config.failOpen =>
    /\ \A i \in DOMAIN logCalls :
         logCalls[i].kind \notin {"estimateWarning", "evaluationError"}
    /\ consoleErrors = <<>>
    /\ OracleFailedInEvaluation =>
         /\ exc = oracleReplies[Len(oracleReplies)].error
         /\ pc \in {"catch", "uncaught", "done"}
    /\ pc = "catch" => exc # NULL
    /\ caught # NULL =>
         /\ caught = exc
         /\ result = NULL
         /\ providerCalls = <<>>
         /\ pc \in {"uncaught", "done"}
         /\ pc = "done" => outcome = [kind |-> "rejected", error |-> caught]

\* C7's case: the oracle failed with failOpen=false and the caller received
\* the oracle's error.
C7_Witness ==
  /\ ~config.failOpen
  /\ OracleFailedInEvaluation
  /\ pc = "done"
  /\ outcome = [kind |-> "rejected", error |-> oracleReplies[Len(oracleReplies)].error]

\* C8: an invocation of estimateCost makes exactly one oracle call, with
\* (messages, model).  When the call succeeds, no hook is invoked and the
\* oracle's token count, input cost and output price are returned
\* unchanged; when it fails with failOpen=true, null is returned and onLog
\* is invoked exactly once with a warning holding the model and the reason.
C8_EstimateCostContract ==
  [][pc = "estimateCost" =>
       /\ Len(oracleCalls) = Len(oracleReplies) + 1
       /\ oracleCalls' = oracleCalls
       /\ Len(oracleReplies') = Len(oracleCalls)
       /\ oracleCalls[Len(oracleCalls)].messages = Messages
       /\ oracleCalls[Len(oracleCalls)].model = queried
       /\ UNCHANGED <<limitCalls, downgradeCalls, cappedCalls>>
       /\ LET reply == oracleReplies'[Len(oracleCalls)]
          IN  IF reply.ok
              THEN /\ pc' = site
                   /\ estimate' = [tokens |-> reply.tokens, inputCost |-> reply.inputCost,
                                   outputCost |-> reply.outputCost]
                   /\ UNCHANGED logCalls
              ELSE config.failOpen =>
                     /\ pc' = site
                     /\ estimate' = NULL
                     /\ logCalls' = Append(logCalls,
                                           [kind |-> "estimateWarning", model |-> queried,
                                            reason |-> reply.error.message])]_vars

\* C9: an estimate strictly above the ceiling, strict=false, and no
\* downgrade taking place: the result is proceed=true with no error and the
\* request unmodified, and onLimitExceeded was invoked exactly once with
\* the original estimate.
C9_LenientProceeds ==
  /\ (DirectBreach /\ ~config.strict) =>
        /\ direct.exc = NULL
        /\ direct.ret.proceed
        /\ direct.ret.error = NULL
        /\ direct.ret.modifiedArgs = originalArgs
        /\ limitCalls = <<direct.estimate>>
  /\ (/\ Breach
      /\ ~config.strict
      /\ LimitChecked
      /\ NoDowngradePath \/ (fallbackResult # NULL /\ ~fallbackResult.found
                               /\ pc # "attemptAutoDowngrade")) =>
        /\ evalResult # NULL
        /\ evalResult.proceed
        /\ evalResult.error = NULL
        /\ heap[evalResult.modifiedArgs] = request
        /\ evalResult.downgraded = NULL
        /\ limitCalls = <<[tokens |-> oracleReplies[1].tokens,
                           inputCost |-> oracleReplies[1].inputCost,
                           outputCost |-> oracleReplies[1].outputCost]>>

\* C10: an estimate whose inputCost equals the ceiling is not a breach: in
\* evaluateMaxCost and in evaluateRequest the request proceeds unmodified,
\* with no error, no hook invocation and no fallback probe, whatever strict
\* is.
C10_EqualityIsNotABreach ==
  /\ (/\ direct # NULL
      /\ direct.estimate # NULL
      /\ direct.estimate.inputCost = config.maxCost) =>
        /\ direct.exc = NULL
        /\ direct.ret.proceed
        /\ direct.ret.error = NULL
        /\ direct.ret.modifiedArgs = originalArgs
        /\ heap[originalArgs] = request
        /\ limitCalls = <<>> /\ downgradeCalls = <<>>
        /\ cappedCalls = <<>> /\ logCalls = <<>>
        /\ oracleCalls = <<>>
  /\ (/\ Len(oracleReplies) >= 1
      /\ oracleReplies[1].ok
      /\ oracleReplies[1].inputCost = config.maxCost
      /\ LimitChecked) =>
        /\ evalResult # NULL
        /\ evalResult.proceed
        /\ evalResult.error = NULL
        /\ evalResult.downgraded = NULL
        /\ heap[evalResult.modifiedArgs] = request
        /\ limitCalls = <<>> /\ downgradeCalls = <<>>
        /\ Probes = <<>>
        /\ attemptedModels = <<>>
        /\ pc = "safeEvaluateRequest" => (cappedCalls = <<>> /\ logCalls = <<>>)

\* C10's case: evaluateRequest let a request whose estimate equals the
\* ceiling through, in strict mode with fallbacks configured.
C10_Witness ==
  /\ config.strict
  /\ config.autoDowngrade
  /\ config.fallbackModels # <<>>
  /\ Len(oracleReplies) >= 1
  /\ oracleReplies[1].ok
  /\ oracleReplies[1].inputCost = config.maxCost
  /\ evalResult # NULL
  /\ evalResult.proceed
  /\ providerCalls = <<request>>

\* C11: no ceiling configured: whatever the estimate, strict and
\* autoDowngrade are, evaluateMaxCost and evaluateRequest return
\* proceed=true with the request's model unchanged; no GramLimitError or
\* GramDowngradeError is produced, onLimitExceeded and onDowngrade are not
\* invoked and no fallback is probed.
C11_NoCeilingPassthrough ==
  config.maxCost = NoValue =>
    /\ limitCalls = <<>>
    /\ downgradeCalls = <<>>
    /\ Probes = <<>>
    /\ fallbackResult = NULL
    /\ (direct # NULL /\ direct.fn = "evaluateMaxCost") =>
          /\ direct.exc = NULL
          /\ direct.ret.proceed
          /\ direct.ret.error = NULL
          /\ direct.ret.modifiedArgs = originalArgs
          /\ heap[originalArgs].model = request.model
    /\ (Len(oracleReplies) >= 1 /\ oracleReplies[1].ok /\ LimitChecked) =>
          /\ evalResult # NULL
          /\ evalResult.proceed
          /\ evalResult.error = NULL
          /\ evalResult.downgraded = NULL
          /\ heap[evalResult.modifiedArgs].model = request.model
    /\ (result # NULL) => (result.proceed /\ result.error = NULL)
    /\ (outcome # NULL /\ outcome.kind = "rejected") =>
          outcome.error.kind \notin {"GramLimitError", "GramDowngradeError"}

\* C11's case: without a ceiling, in strict mode with autoDowngrade and a
\* fallback configured, an estimate of the largest cost went through and
\* the provider was called with the caller's model.
C11_Witness ==
  /\ config.maxCost = NoValue
  /\ config.strict
  /\ config.autoDowngrade
  /\ config.fallbackModels # <<>>
  /\ Len(oracleReplies) >= 1
  /\ oracleReplies[1].ok
  /\ oracleReplies[1].inputCost = MaxCostUnits
  /\ evalResult # NULL
  /\ evalResult.proceed
  /\ Len(providerCalls) = 1
  /\ providerCalls[1].model = request.model

\* The configured fallbacks that are models of the client's provider, in
\* their configured order.
ProviderFiltered ==
  SelectSeq(config.fallbackModels,
            LAMBDA m : getModel(m) # NULL /\ getModel(m).provider = Provider)

\* The estimate evaluateRequest obtained for the original model.
OriginalEstimate ==
  [tokens |-> oracleReplies[1].tokens, inputCost |-> oracleReplies[1].inputCost,
   outputCost |-> oracleReplies[1].outputCost]

\* Every fallback of the provider has been probed, none fits the ceiling
\* (its estimate is above it, or its query failed), and the search is over.
SearchExhausted ==
  /\ ProviderFiltered # <<>>
  /\ Len(attemptedModels) = Len(ProviderFiltered)
  /\ Len(oracleReplies) >= Len(ProviderFiltered) + 1
  /\ \A i \in 1..Len(ProviderFiltered) : Unfit(oracleReplies[i + 1])
  /\ pc \notin {"findAffordableFallback", "attemptAutoDowngrade"}

\* C12: the original estimate exceeds the ceiling, autoDowngrade is on,
\* strict=true, the provider-filtered fallback list is not empty and no
\* fallback fits: the result is proceed=false with a GramDowngradeError
\* whose originalModel is the original model and whose attemptedFallbacks
\* is the whole provider-filtered list in configured order; no request is
\* returned and no limit, downgrade or cap hook is invoked.
C12_StrictExhaustedFallbacks ==
  (Breach /\ config.autoDowngrade /\ config.strict /\ SearchExhausted) =>
    /\ evalResult # NULL
    /\ evalResult.proceed = FALSE
    /\ evalResult.error # NULL
    /\ evalResult.error.kind = "GramDowngradeError"
    /\ evalResult.error.originalModel = request.model
    /\ evalResult.error.attemptedFallbacks = ProviderFiltered
    /\ evalResult.modifiedArgs = NoValue
    /\ limitCalls = <<>>
    /\ downgradeCalls = <<>>
    /\ cappedCalls = <<>>

\* C13: the original estimate exceeds the ceiling, autoDowngrade is on,
\* strict=false and no fallback fits: the result is proceed=true with the
\* original, unmodified request and no downgrade annotation;
\* onLimitExceeded was invoked exactly once with the original estimate and
\* onDowngrade was not invoked.
C13_LenientExhaustedFallbacks ==
  (Breach /\ config.autoDowngrade /\ ~config.strict /\ SearchExhausted) =>
    /\ evalResult # NULL
    /\ evalResult.proceed
    /\ evalResult.error = NULL
    /\ evalResult.downgraded = NULL
    /\ heap[evalResult.modifiedArgs] = request
    /\ limitCalls = <<OriginalEstimate>>
    /\ downgradeCalls = <<>>

\* C14: the original estimate exceeds the ceiling and autoDowngrade is
\* off, or the fallback list is empty, or no fallback is a model of the
\* client's provider: no fallback is queried; strict=true gives a
\* GramLimitError(originalCost, ceiling, originalModel), never a
\* GramDowngradeError; strict=false invokes onLimitExceeded once with the
\* original estimate and proceeds with the unmodified request.
C14_NoDowngradePathIsPlainBreach ==
  (Breach /\ LimitChecked
   /\ (~config.autoDowngrade \/ config.fallbackModels = <<>> \/ ProviderFiltered = <<>>)) =>
    /\ Probes = <<>>
    /\ attemptedModels = <<>>
    /\ downgradeCalls = <<>>
    /\ evalResult # NULL
    /\ IF config.strict
       THEN /\ evalResult.proceed = FALSE
            /\ evalResult.error =
                 [kind |-> "GramLimitError", estimatedCost |-> oracleReplies[1].inputCost,
                  maxCost |-> config.maxCost, model |-> request.model]
            /\ limitCalls = <<>>
       ELSE /\ evalResult.proceed
            /\ evalResult.error = NULL
            /\ heap[evalResult.modifiedArgs] = request
            /\ limitCalls = <<OriginalEstimate>>

\* C15: in the fallback search a fallback whose oracle query fails is
\* recorded as attempted and skipped: the search goes on with the next
\* model of the list (or returns that none fits after the last one); the
\* failed probe ends neither the search nor the evaluation, whatever
\* failOpen is.
C15_FailedProbeIsSkipped ==
  \A i \in 1..Len(attemptedModels) :
    (Len(oracleReplies) >= i + 1 /\ ~oracleReplies[i + 1].ok) =>
      /\ attemptedModels[i] = ProviderFiltered[i]
      /\ \/ pc = "findAffordableFallback" /\ Len(attemptedModels) = i /\ estimate = NULL
         \/ Len(attemptedModels) > i
         \/ i = Len(ProviderFiltered) /\ fallbackResult # NULL /\ ~fallbackResult.found

\* C17: the estimate for the original model is null (the oracle failed,
\* failOpen=true): the evaluation ends there with proceed=true and the
\* unmodified request; no limit check, no fallback probe, no further oracle
\* query and no output cap follow, whatever ceiling and remaining budget
\* are configured.
C17_NullEstimateIsTerminal ==
  (config.failOpen /\ Len(oracleReplies) >= 1 /\ ~oracleReplies[1].ok
   /\ evalResult # NULL) =>
    /\ evalResult.proceed
    /\ heap[evalResult.modifiedArgs] = request
    /\ \A i \in 2..Len(oracleCalls) : oracleCalls[i].from = "logCompletion"
    /\ Probes = <<>>
    /\ limitCalls = <<>>
    /\ downgradeCalls = <<>>
    /\ cappedCalls = <<>>
    /\ pc # "safeEvaluateRequest" =>
         /\ result # NULL
         /\ result.proceed
         /\ result.error = NULL
         /\ result.downgraded = NULL
         /\ result.outputCapped = NULL
         /\ result.failedOpen = FALSE
         /\ heap[result.modifiedArgs] = request

\* C16: filterFallbacksByProvider returns the subsequence of the fallback
\* list made of exactly the models whose oracle-reported provider is the
\* given provider: order is kept, a model of another provider and a model
\* the oracle does not know are left out.
C16_FilterKeepsProviderModelsInOrder ==
  /\ (direct # NULL /\ direct.fn = "filterFallbacksByProvider") =>
       LET list == direct.input.fallbackModels
           out == direct.ret
           Kept == {i \in DOMAIN list :
                     /\ getModel(list[i]) # NULL
                     /\ getModel(list[i]).provider = direct.input.provider}
       IN  /\ Len(out) = Cardinality(Kept)
           /\ \E f \in [DOMAIN out -> DOMAIN list] :
                /\ \A i, j \in DOMAIN out : i < j => f[i] < f[j]
                /\ {f[i] : i \in DOMAIN out} = Kept
                /\ \A i \in DOMAIN out : out[i] = list[f[i]]
  /\ Probes # <<>> => providerFallbacks = ProviderFiltered

\* C16's case: of three models the unknown one in the middle was left out
\* and the two models of the provider were returned in their order.
C16_Witness ==
  /\ direct # NULL
  /\ direct.fn = "filterFallbacksByProvider"
  /\ direct.input = [fallbackModels |-> <<"m3", "zz", "m2">>, provider |-> "openai"]
  /\ direct.ret = <<"m3", "m2">>

\* C18: the object the caller passed is never changed by a wrapped call,
\* on any path; every rewrite of the model or of the output length is made
\* on a new object, and no existing request object is written.
C18_CallerObjectNeverChanged ==
  [][/\ heap[originalArgs] = request
     /\ heap'[originalArgs] = request
     /\ Len(heap') >= Len(heap)
     /\ \A ref \in DOMAIN heap : heap'[ref] = heap[ref]]_vars

\* C18's case: a call was downgraded and capped, the provider received the
\* rewritten request, and the caller's object is as it was passed.
C18_Witness ==
  /\ pc = "done"
  /\ result # NULL
  /\ result.downgraded # NULL
  /\ result.outputCapped # NULL
  /\ Len(providerCalls) = 1
  /\ providerCalls[1].model # request.model
  /\ providerCalls[1].max_tokens # request.max_tokens
  /\ result.modifiedArgs # originalArgs
  /\ heap[originalArgs] = request

\* C19: calculateMaxAffordableOutputTokens returns 0 when remainingBudget
\* <= inputCost or outputPrice <= 0, and otherwise the floor of
\* (remainingBudget - inputCost) / (outputPrice / 1,000,000); the result is
\* a non-negative integer.
C19_MaxAffordableOutputTokens ==
  (direct # NULL /\ direct.fn = "calculateMaxAffordableOutputTokens") =>
    LET budget == direct.input.remainingBudget - direct.input.inputCost
        price == direct.input.outputPrice
        out == direct.ret
    IN  /\ out \in Nat
        /\ IF budget <= 0 \/ price <= 0
           THEN out = 0
           ELSE /\ out * price <= budget * MILLION
                /\ budget * MILLION < (out + 1) * price

\* C19's case: a budget the price does not divide exactly was rounded down.
C19_Witness ==
  /\ direct # NULL
  /\ direct.fn = "calculateMaxAffordableOutputTokens"
  /\ direct.input = [remainingBudget |-> 2, inputCost |-> 1, outputPrice |-> 300000]
  /\ direct.ret = 3

\* The output-cap stage got the estimate oracleReplies[k], and with it the
\* affordable output length reaches minOutputTokens.
AffordableReachesThreshold(k) ==
  /\ oracleCalls[k].from = "outputCap"
  /\ Len(oracleReplies) >= k
  /\ oracleReplies[k].ok
  /\ config.remainingBudget # NoValue
  /\ config.remainingBudget > oracleReplies[k].inputCost
  /\ oracleReplies[k].outputCost > 0
  /\ config.minOutputTokens * oracleReplies[k].outputCost
       <= (config.remainingBudget - oracleReplies[k].inputCost) * MILLION
  /\ pc # "outputCap"

\* C20: when the affordable output length is >= minOutputTokens no cap is
\* applied, whatever length the caller requested: the request's output
\* length is left as it was, onOutputCapped is not invoked and the result
\* has no outputCapped annotation.
C20_NoCapAtOrAboveThreshold ==
  \A k \in DOMAIN oracleCalls :
    AffordableReachesThreshold(k) =>
      /\ cappedCalls = <<>>
      /\ result # NULL
      /\ result.proceed
      /\ result.outputCapped = NULL
      /\ result.modifiedArgs = evalResult.modifiedArgs
      /\ heap[result.modifiedArgs].max_tokens = request.max_tokens
      /\ \A i \in DOMAIN providerCalls : providerCalls[i].max_tokens = request.max_tokens

\* C20's case: the caller requested 3 tokens, 2 are affordable and the
\* threshold is 2: the provider received the request for 3 tokens.
C20_Witness ==
  /\ \E k \in DOMAIN oracleCalls :
       /\ AffordableReachesThreshold(k)
       /\ (config.remainingBudget - oracleReplies[k].inputCost) * MILLION
            < request.max_tokens * oracleReplies[k].outputCost
  /\ request.max_tokens = 3
  /\ Len(providerCalls) = 1
  /\ providerCalls[1].max_tokens = 3

\* The affordable output length for an estimate under the remaining budget
\* (0 when nothing is left or the price is not positive).
Affordable(est) ==
  IF config.remainingBudget <= est.inputCost \/ est.outputCost <= 0 THEN 0
  ELSE ((config.remainingBudget - est.inputCost) * MILLION) \div est.outputCost

\* A direct call of evaluateOutputCap with a budget configured and an
\* estimate.
DirectCapDecision ==
  /\ direct # NULL
  /\ direct.fn = "evaluateOutputCap"
  /\ config.remainingBudget # NoValue
  /\ direct.input.estimate # NULL

\* C21: a cap is required (0 < affordable < minOutputTokens): the applied
\* output length is min(affordable, requested) when the caller gave a
\* requested length, and affordable when the caller gave none.
C21_CapIsMinOfAffordableAndRequested ==
  (/\ DirectCapDecision
   /\ 0 < Affordable(direct.input.estimate)
   /\ Affordable(direct.input.estimate) < config.minOutputTokens) =>
    LET affordable == Affordable(direct.input.estimate)
        requested == direct.input.currentMaxTokens
    IN  /\ direct.ret.shouldCap
        /\ direct.ret.maxTokens =
             IF requested = NoValue THEN affordable
             ELSE IF requested <= affordable THEN requested ELSE affordable

\* The output-cap stage of the wrapped call got the estimate
\* oracleReplies[k] and has acted on it.
CapStageDone(k) ==
  /\ oracleCalls[k].from = "outputCap"
  /\ Len(oracleReplies) >= k
  /\ oracleReplies[k].ok
  /\ pc # "outputCap"

\* The output length the cap decision for estimate `est` asks for, NoValue
\* when it asks for none.
DecidedLength(est) ==
  IF Affordable(est) <= 0 THEN (IF config.strict THEN 0 ELSE NoValue)
  ELSE IF Affordable(est) >= config.minOutputTokens THEN NoValue
  ELSE IF request.max_tokens # NoValue /\ request.max_tokens <= Affordable(est)
       THEN request.max_tokens
       ELSE Affordable(est)

\* C22: a cap decision with shouldCap=true writes the decided maxTokens
\* into the output-length field of a new request value, invokes
\* onOutputCapped exactly once with (maxTokens, reason) and records
\* outputCapped = {maxTokens, reason} in the result; a decision with
\* shouldCap=false does none of the three.
C22_CapDecisionIsApplied ==
  \A k \in DOMAIN oracleCalls :
    CapStageDone(k) =>
      IF DecidedLength(oracleReplies[k]) # NoValue
      THEN /\ Len(cappedCalls) = 1
           /\ cappedCalls[1].maxTokens = DecidedLength(oracleReplies[k])
           /\ result # NULL
           /\ result.outputCapped = cappedCalls[1]
           /\ result.modifiedArgs # evalResult.modifiedArgs
           /\ heap[result.modifiedArgs].max_tokens = DecidedLength(oracleReplies[k])
           /\ heap[evalResult.modifiedArgs].max_tokens = request.max_tokens
      ELSE /\ cappedCalls = <<>>
           /\ result # NULL
           /\ result.outputCapped = NULL
           /\ result.modifiedArgs = evalResult.modifiedArgs

\* C23: a remaining budget is configured and the affordable output length
\* is <= 0: with strict=true the output length is capped to 0, with the
\* reason that the budget is insufficient for any output tokens, and
\* onOutputCapped fires with 0; with strict=false no cap is applied and
\* the request proceeds at the length the caller requested.
C23_NothingAffordable ==
  \A k \in DOMAIN oracleCalls :
    (CapStageDone(k) /\ Affordable(oracleReplies[k]) <= 0) =>
      /\ result # NULL
      /\ result.proceed
      /\ IF config.strict
         THEN /\ result.outputCapped =
                   [maxTokens |-> 0,
                    reason |-> [text |-> "Insufficient budget for any output tokens"]]
              /\ cappedCalls = <<result.outputCapped>>
              /\ heap[result.modifiedArgs].max_tokens = 0
         ELSE /\ result.outputCapped = NULL
              /\ cappedCalls = <<>>
              /\ heap[result.modifiedArgs].max_tokens = request.max_tokens

\* C24: no remaining budget configured, or a null estimate for the cap:
\* the cap is never applied, the request's output length is unchanged and
\* onOutputCapped is not invoked; without a remaining budget the output-cap
\* stage makes no oracle query.
C24_NoBudgetOrNoEstimateNoCap ==
  /\ (direct # NULL /\ direct.fn = "evaluateOutputCap"
      /\ (config.remainingBudget = NoValue \/ direct.input.estimate = NULL)) =>
        direct.ret.shouldCap = FALSE
  /\ config.remainingBudget = NoValue =>
        \A k \in DOMAIN oracleCalls : oracleCalls[k].from # "outputCap"
  /\ (\/ config.remainingBudget = NoValue
      \/ \E k \in DOMAIN oracleCalls :
           /\ oracleCalls[k].from = "outputCap"
           /\ Len(oracleReplies) >= k
           /\ ~oracleReplies[k].ok) =>
        /\ cappedCalls = <<>>
        /\ \A ref \in DOMAIN heap : heap[ref].max_tokens = request.max_tokens
        /\ result # NULL => result.outputCapped = NULL
        /\ \A i \in DOMAIN providerCalls :
             providerCalls[i].max_tokens = request.max_tokens

\* C24's case: with a remaining budget configured the estimate for the
\* cap was null, and the provider received the requested length.
C24_Witness ==
  /\ config.remainingBudget # NoValue
  /\ \E k \in DOMAIN oracleCalls :
       /\ oracleCalls[k].from = "outputCap"
       /\ Len(oracleReplies) >= k
       /\ ~oracleReplies[k].ok
  /\ result # NULL
  /\ ~result.failedOpen
  /\ request.max_tokens = 3
  /\ Len(providerCalls) = 1
  /\ providerCalls[1].max_tokens = 3

\* The model the request is sent with after the limit/downgrade stage.
EffectiveModel ==
  IF fallbackResult # NULL /\ fallbackResult.found
  THEN fallbackResult.model
  ELSE request.model

\* C25: a remaining budget is configured and the request proceeds past the
\* limit/downgrade stage: the cap is computed from a fresh estimate of the
\* effective model (the chosen fallback after a downgrade, the original
\* model otherwise) and applied to the downgraded request; a request that
\* is downgraded and capped is returned with the fallback as model, the
\* capped length and both annotations.
C25_CapAfterDowngradeOnFreshEstimate ==
  /\ \A k \in DOMAIN oracleCalls :
       oracleCalls[k].from = "outputCap" =>
         /\ config.remainingBudget # NoValue
         /\ evalResult # NULL
         /\ evalResult.proceed
         /\ k = Len(Probes) + 2
         /\ oracleCalls[k].model = EffectiveModel
         /\ oracleCalls[k].messages = Messages
         /\ (result # NULL /\ result.outputCapped # NULL) =>
              /\ oracleReplies[k].ok
              /\ result.outputCapped.maxTokens = DecidedLength(oracleReplies[k])
  /\ (/\ evalResult # NULL
      /\ evalResult.proceed
      /\ config.remainingBudget # NoValue
      /\ pc # "safeEvaluateRequest") =>
        \E k \in DOMAIN oracleCalls : oracleCalls[k].from = "outputCap"
  /\ (result # NULL /\ result.outputCapped # NULL) =>
        /\ heap[result.modifiedArgs].max_tokens = result.outputCapped.maxTokens
        /\ heap[result.modifiedArgs].model = EffectiveModel
        /\ result.downgraded = evalResult.downgraded
        /\ (fallbackResult # NULL /\ fallbackResult.found) =>
              /\ result.downgraded # NULL
              /\ result.downgraded.to = fallbackResult.model

\* C25's case: a request was downgraded on an estimate of 2 and capped on
\* a fresh estimate of 1 for the fallback, and sent with the fallback as
\* model and the capped length.
C25_Witness ==
  /\ result # NULL
  /\ result.downgraded # NULL
  /\ result.outputCapped # NULL
  /\ fallbackResult.estimate.inputCost = 2
  /\ oracleReplies[Len(Probes) + 2].inputCost = 1
  /\ Len(providerCalls) = 1
  /\ providerCalls[1].model = fallbackResult.model
  /\ providerCalls[1].max_tokens = result.outputCapped.maxTokens

\* The evaluation was recovered fail-open: a stage's failure was caught,
\* or the oracle failed during the evaluation, with failOpen=true.
RecoveredFailOpen ==
  /\ config.failOpen
  /\ \/ caught # NULL
     \/ \E k \in DOMAIN oracleReplies :
          ~oracleReplies[k].ok /\ oracleCalls[k].from # "logCompletion"

\* C26: a wrapped call whose evaluation was recovered fail-open calls the
\* provider with the caller's original, unmodified arguments, and no
\* post-completion cost log is emitted for it.
C26_FailOpenSkipsCostLog ==
  RecoveredFailOpen =>
    /\ \A i \in DOMAIN providerCalls : providerCalls[i] = request
    /\ \A i \in DOMAIN logCalls : logCalls[i].kind # "completion"

\* C27: for a non-streaming request the pipeline admits, the wrapped call
\* returns exactly the provider's response, and fails with the provider's
\* error when the provider call fails; nothing done after the provider
\* call changes what the caller receives.
C27_ResponseUnchanged ==
  (pc = "done" /\ providerCalls # <<>>) =>
    IF response # NULL
    THEN outcome = [kind |-> "resolved", value |-> response]
    ELSE outcome = [kind |-> "rejected", error |-> Error("provider down")]

\* The options the validation must refuse: a ceiling or a threshold that is
\* not positive, a negative remaining budget.
InvalidOptions(options) ==
  \/ Given(options.maxCost) /\ ValueOf(options.maxCost) <= 0
  \/ Given(options.remainingBudget) /\ ValueOf(options.remainingBudget) < 0
  \/ Given(options.minOutputTokens) /\ ValueOf(options.minOutputTokens) <= 0

\* A configuration whose ceiling and threshold are positive and whose
\* remaining budget is not negative.
ValidPolicy(cfg) ==
  /\ cfg.maxCost = NoValue \/ cfg.maxCost > 0
  /\ cfg.remainingBudget = NoValue \/ cfg.remainingBudget >= 0
  /\ cfg.minOutputTokens > 0

\* withGram was called.
Wrapped == direct # NULL /\ direct.fn = "withGram"

\* C29: withGram throws a GramConfigError, before it calls a hook and
\* without returning a wrapped client, whenever maxCost <= 0,
\* remainingBudget < 0 or minOutputTokens <= 0; a remaining budget of 0 and
\* absent fields are accepted (only an unsupported client is refused then);
\* so the configuration of every wrapped client, and of every evaluation,
\* has a positive ceiling (or none), a non-negative remaining budget (or
\* none) and a positive threshold, and no GramConfigError appears while a
\* request is evaluated.
C29_ConfigErrorAtWrapTime ==
  /\ Wrapped =>
       LET options == direct.input.options
       IN  /\ InvalidOptions(options) =>
                /\ direct.exc # NULL
                /\ direct.exc.kind = "GramConfigError"
                /\ direct.exc.field \in {"maxCost", "remainingBudget", "minOutputTokens"}
                /\ direct.ret = NULL
                /\ logCalls = <<>>
           /\ (~InvalidOptions(options) /\ direct.input.client = "openai") =>
                (direct.exc = NULL \/ direct.exc.kind # "GramConfigError")
           /\ direct.ret # NULL => ValidPolicy(direct.ret.config)
  /\ ValidPolicy(config)
  /\ exc # NULL => exc.kind # "GramConfigError"
  /\ caught # NULL => caught.kind # "GramConfigError"
  /\ (outcome # NULL /\ outcome.kind = "rejected") => outcome.error.kind # "GramConfigError"

\* C29's case: withGram refused a negative remaining budget given with a
\* valid ceiling.
C29_Witness ==
  /\ Wrapped
  /\ direct.input.options.maxCost = {2}
  /\ direct.input.options.remainingBudget = {-1}
  /\ direct.exc = GramConfigError("remainingBudget", "Cannot be negative")
  /\ direct.ret = NULL

\* The options of a caller who gives nothing but a ceiling.
OnlyMaxCost ==
  [maxCost |-> {2}, remainingBudget |-> {}, minOutputTokens |-> {}, strict |-> {},
   failOpen |-> {}, autoDowngrade |-> {}, fallbackModels |-> {}]

\* C30: in the resolved configuration strict is the given value, and
\* otherwise true exactly when maxCost is given; failOpen is the given
\* value, otherwise true; minOutputTokens is the given value, otherwise 500;
\* every other given value is kept.  A client wrapped with maxCost alone
\* blocks a request whose estimate exceeds the ceiling with a
\* GramLimitError and never calls the provider; a client wrapped without
\* maxCost never blocks.
C30_Defaults ==
  /\ (Wrapped /\ direct.ret # NULL) =>
       LET options == direct.input.options
           cfg == direct.ret.config
       IN  /\ cfg.strict = IF Given(options.strict) THEN ValueOf(options.strict)
                           ELSE Given(options.maxCost)
           /\ cfg.failOpen = IF Given(options.failOpen) THEN ValueOf(options.failOpen)
                             ELSE TRUE
           /\ cfg.minOutputTokens = IF Given(options.minOutputTokens)
                                    THEN ValueOf(options.minOutputTokens) ELSE 500
           /\ Given(options.maxCost) => cfg.maxCost = ValueOf(options.maxCost)
           /\ Given(options.remainingBudget) =>
                cfg.remainingBudget = ValueOf(options.remainingBudget)
           /\ Given(options.autoDowngrade) =>
                cfg.autoDowngrade = ValueOf(options.autoDowngrade)
           /\ Given(options.fallbackModels) =>
                cfg.fallbackModels = ValueOf(options.fallbackModels)
  /\ (config = resolveConfig(OnlyMaxCost) /\ throws = {} /\ Breach /\ LimitChecked) =>
       LET error == GramLimitError(oracleReplies[1].inputCost, config.maxCost, request.model)
       IN  /\ evalResult = Blocked(error)
           /\ providerCalls = <<>>
           /\ pc = "done" => outcome = [kind |-> "rejected", error |-> error]
  /\ config.maxCost = NoValue =>
       /\ evalResult # NULL => evalResult.proceed
       /\ result # NULL => result.proceed
       /\ (outcome # NULL /\ outcome.kind = "rejected") =>
            outcome.error.kind \notin {"GramLimitError", "GramDowngradeError"}

\* C30's case: a wrapped call through a client configured with maxCost
\* alone ended in a GramLimitError.
C30_Witness ==
  /\ config = resolveConfig(OnlyMaxCost)
  /\ throws = {}
  /\ Breach
  /\ pc = "done"
  /\ outcome.kind = "rejected"
  /\ outcome.error.kind = "GramLimitError"

\* q is a prefix of p.
IsPrefix(q, p) == Len(q) <= Len(p) /\ \A i \in DOMAIN q : q[i] = p[i]

\* The call evaluated alone has, so far, issued the queries and invoked the
\* hooks the call did among the concurrent ones, in the same order.
AloneFollows ==
  /\ IsPrefix(oracleCalls, replay.observed.oracleCalls)
  /\ IsPrefix(limitCalls, replay.observed.limitCalls)
  /\ IsPrefix(downgradeCalls, replay.observed.downgradeCalls)
  /\ IsPrefix(cappedCalls, replay.observed.cappedCalls)
  /\ IsPrefix(logCalls, replay.observed.logCalls)
  /\ IsPrefix(consoleErrors, replay.observed.consoleErrors)
  /\ IsPrefix(providerCalls, replay.observed.providerCalls)
  /\ pc = "estimateCost" => Len(oracleReplies) < Len(replay.oracle)
  /\ pc = "originalMethod" => ProviderAnswers # {}

\* A step of the running call leaves what the waiting call did and
\* produced, and its request objects, as they are.
WaitingCallUntouched ==
  (running # 0 /\ running' = running /\ replay = NULL /\ replay' = NULL) =>
    /\ suspended' = suspended
    /\ Observation(suspended, heap') = Observation(suspended, heap)

\* C28: two calls are made concurrently through one wrapped client, with
\* one request object, and are resumed in any order at their awaits.  What
\* each call did and produced (its result, the request sent to the
\* provider, its hook invocations, its oracle queries in order, what its
\* caller received) is what the call does and produces when it is evaluated
\* alone against the answers it was given; no step of a call changes what
\* the other call did, its request objects or the caller's object; and the
\* configuration is never written.
C28_ConcurrentCallsIndependent ==
  /\ [](/\ running # 0 => heap[originalArgs] = request
        /\ replay # NULL => AloneFollows
        /\ (replay # NULL /\ pc = "done") => Observation(Frame, heap) = replay.observed)
  /\ [][WaitingCallUntouched /\ config' = config]_vars

\* C28's case: both calls are in flight at once: the running call was
\* downgraded and waits for the estimate of the output cap stage, while the
\* other call waits for the provider with a capped request.
C28_Witness ==
  /\ running = 2
  /\ replay = NULL
  /\ pc = "estimateCost"
  /\ site = "outputCap"
  /\ evalResult # NULL
  /\ evalResult.downgraded # NULL
  /\ suspended.pc = "originalMethod"
  /\ suspended.result.outputCapped # NULL

\* The limit/downgrade stage of a wrapped call ended on a breach without
\* substituting a fallback: there was none to try, or the search returned
\* that none fits.
BreachNotDowngraded ==
  /\ direct = NULL
  /\ Breach
  /\ \/ LimitChecked /\ NoDowngradePath
     \/ fallbackResult # NULL /\ ~fallbackResult.found /\ pc # "attemptAutoDowngrade"

StageOf(fn) ==
  CASE fn = "start" -> 0
    [] fn = "evaluateRequest" -> 2
    [] fn \in {"findAffordableFallback", "attemptAutoDowngrade", "safeEvaluateRequest"} -> 3
    [] fn = "outputCap" -> 4
    [] OTHER -> 5

\* The stage of the oracle query made from fn.
QueryStage(fn) == IF fn = "evaluateRequest" THEN 1 ELSE StageOf(fn)

\* The stage the call stands in.
Stage == IF pc = "estimateCost" THEN QueryStage(site) ELSE StageOf(pc)

\* The output cap stage was entered.
CapStageEntered ==
  \/ pc = "outputCap"
  \/ \E k \in DOMAIN oracleCalls : oracleCalls[k].from = "outputCap"

\* C32: within one evaluation the stages follow one another in the order
\* estimate, limit check, downgrade, output cap, proceed, and none is gone
\* back to: the oracle queries are the original model's estimate, then the
\* fallback probes, then at most one estimate for the output cap; a fallback
\* is probed only after the original model's estimate was obtained and is
\* strictly above the ceiling; the output cap stage is entered only with a
\* proceed result of the limit/downgrade stage, never with a rejection.
C32_StagesInOrder ==
  /\ [](direct = NULL =>
         /\ \A i, j \in DOMAIN oracleCalls :
              i < j => /\ QueryStage(oracleCalls[i].from) <= QueryStage(oracleCalls[j].from)
                       /\ QueryStage(oracleCalls[j].from) \notin {1, 4}
                            \/ QueryStage(oracleCalls[i].from) # QueryStage(oracleCalls[j].from)
         /\ oracleCalls # <<>> => oracleCalls[1].from = "evaluateRequest"
         /\ (Probes # <<>> \/ pc \in {"findAffordableFallback", "attemptAutoDowngrade"}) =>
              Breach
         /\ CapStageEntered =>
              /\ evalResult # NULL
              /\ evalResult.proceed
              /\ evalResult.error = NULL
         /\ (evalResult # NULL /\ evalResult.error # NULL) =>
              /\ ~CapStageEntered
              /\ cappedCalls = <<>>)
  /\ [][Stage' >= Stage]_vars

\* C32's case: a call went through every stage: the original estimate, a
\* fallback probe, the estimate for the output cap, and the provider call.
C32_Witness ==
  /\ pc = "done"
  /\ Len(oracleCalls) = 4
  /\ oracleCalls[1].from = "evaluateRequest"
  /\ oracleCalls[2].from = "findAffordableFallback"
  /\ oracleCalls[3].from = "outputCap"
  /\ oracleCalls[4].from = "logCompletion"
  /\ result.downgraded # NULL
  /\ result.outputCapped # NULL

\* safeEvaluateRequest has been entered and the original model's estimate
\* is asked for.
EvaluationStarted == direct = NULL /\ pc # "start"

\* safeEvaluateRequest threw: its catch block rethrew the failure.
Rethrown == result = NULL /\ caught # NULL /\ pc \in {"uncaught", "done"}

\* safeEvaluateRequest has ended: it returned a result or threw.
EvaluationEnded == direct = NULL /\ (result # NULL \/ Rethrown)

\* The queries the evaluation issued (the one interceptedMethod makes after
\* the provider call is not the evaluation's).
EvaluationQueries == SelectSeq(oracleCalls, LAMBDA q : q.from # "logCompletion")

\* C33: every evaluation ends, whatever the oracle answers: with a proceed
\* result, or with a rejection that carries a GramLimitError or a
\* GramDowngradeError, or by rethrowing a failure, and with exactly one of
\* the three; it issues at most 2 + n oracle queries, n being the number of
\* configured fallbacks that are models of the client's provider.
C33_EvaluationTerminates ==
  /\ EvaluationStarted ~> EvaluationEnded
  /\ [](direct = NULL =>
         /\ Len(EvaluationQueries) <= 2 + Len(ProviderFiltered)
         /\ result # NULL =>
              /\ ~Rethrown
              /\ result.proceed =>
                   result.error = NULL /\ result.modifiedArgs # NoValue
              /\ ~result.proceed =>
                   /\ result.error # NULL
                   /\ result.error.kind \in {"GramLimitError", "GramDowngradeError"}
         /\ Rethrown => (config.failOpen = FALSE /\ exc = caught /\ providerCalls = <<>>))

\* C33's case: an evaluation ended after 2 + n queries, n = 2: the original
\* estimate, two fallback probes and the estimate for the output cap.
C33_Witness ==
  /\ EvaluationEnded
  /\ Len(ProviderFiltered) = 2
  /\ Len(EvaluationQueries) = 4
  /\ result # NULL

\* The completion cost lines among the log calls.
CompletionLogs == SelectSeq(logCalls, LAMBDA m : m.kind = "completion")

\* The evaluation of the streaming call failed open: a stage's failure was
\* caught, or the oracle failed on a query of the evaluation.
StreamFailedOpen ==
  /\ config.failOpen
  /\ \/ caught # NULL
     \/ \E k \in DOMAIN oracleReplies :
          ~oracleReplies[k].ok /\ oracleCalls[k].from \notin {"streaming", "streamLog"}

\* The wrapped stream has yielded the provider's chunks so far, unchanged
\* and in order, and all of them once it has passed the last one.
ChunksPassThrough ==
  stream # NULL =>
    /\ IsPrefix(stream.yielded, response.chunks)
    /\ pc \in {"countTokens", "estimateCost", "streamLog"} => stream.yielded = response.chunks

\* C34: for a streaming request that proceeds, the wrapped stream yields
\* exactly the chunks of the provider's stream, unchanged and in order; the
\* completion cost log is emitted at most once, only after the last chunk
\* was yielded, never when the evaluation failed open; and a failure while
\* computing that log never reaches the consumer: once the provider has
\* returned its stream the wrapped call does not reject.
C34_StreamUnchangedLogOnce ==
  /\ ChunksPassThrough
  /\ Len(CompletionLogs) <= 1
  /\ CompletionLogs # <<>> => stream # NULL /\ stream.yielded = response.chunks
  /\ StreamFailedOpen => CompletionLogs = <<>>
  /\ response # NULL => (outcome = NULL \/ outcome.kind = "resolved")

\* The provider was called with the caller's original model.
SentOriginalModel ==
  /\ direct = NULL
  /\ providerCalls # <<>>
  /\ providerCalls[1].model = request.model

\* C35: a ceiling is configured and strict=true: the provider is called
\* with the caller's original model only if the original model's estimate
\* was at or below the ceiling, or could not be obtained (the oracle failed
\* under failOpen=true); an original model whose obtained estimate exceeds
\* the ceiling is never sent.
C35_StrictNeverSendsBreachingModel ==
  (config.maxCost # NoValue /\ config.strict /\ SentOriginalModel) =>
    \/ ~oracleReplies[1].ok /\ config.failOpen
    \/ oracleReplies[1].ok /\ oracleReplies[1].inputCost <= config.maxCost

\* A model the evaluation may substitute: a configured fallback that the
\* oracle's model list gives the client's provider, and for which a probe
\* of this evaluation answered an input cost at or below the ceiling.
ProbedAffordable(m) ==
  /\ \E i \in DOMAIN config.fallbackModels : config.fallbackModels[i] = m
  /\ getModel(m) # NULL
  /\ getModel(m).provider = Provider
  /\ config.maxCost # NoValue
  /\ \E k \in DOMAIN oracleReplies :
       /\ oracleCalls[k].model = m
       /\ oracleCalls[k].from = "findAffordableFallback"
       /\ oracleReplies[k].ok
       /\ oracleReplies[k].inputCost <= config.maxCost

\* C36: the model of the request sent to the provider is the caller's
\* original model, or a configured fallback whose provider is the client's
\* and whose fresh estimate in this evaluation had an input cost at or
\* below the ceiling; no model of another provider and no unknown model is
\* ever sent.
C36_SentModelOriginalOrVettedFallback ==
  (direct = NULL /\ providerCalls # <<>>) =>
    \/ providerCalls[1].model = request.model
    \/ ProbedAffordable(providerCalls[1].model)

\* The provider was called with a fallback in place of the original model.
C36_Witness ==
  /\ direct = NULL
  /\ providerCalls # <<>>
  /\ providerCalls[1].model # request.model
  /\ ProbedAffordable(providerCalls[1].model)

\* C37: whenever the output cap is applied to a request whose caller gave a
\* requested output length r, r = 0 included, the length written into the
\* request is at most r: the cap never raises the length the caller asked
\* for.
C37_CapNeverRaisesRequestedLength ==
  /\ (/\ direct # NULL
      /\ direct.fn = "evaluateOutputCap"
      /\ direct.input.currentMaxTokens # NoValue
      /\ direct.ret.shouldCap) =>
       direct.ret.maxTokens <= direct.input.currentMaxTokens
  /\ (direct = NULL /\ request.max_tokens # NoValue) =>
       \A i \in DOMAIN cappedCalls : cappedCalls[i].maxTokens <= request.max_tokens

\* safeEvaluateRequest returned a result that lets the request proceed.
ReturnedProceed == direct = NULL /\ result # NULL /\ result.proceed

C39_NotificationsAtMostOnce ==
  direct = NULL =>
    /\ Len(limitCalls) <= 1
    /\ Len(downgradeCalls) <= 1
    /\ Len(cappedCalls) <= 1
    /\ limitCalls = <<>> \/ downgradeCalls = <<>>
    /\ (result # NULL /\ ~result.proceed) =>
         limitCalls = <<>> /\ downgradeCalls = <<>> /\ cappedCalls = <<>>

\* An evaluation has ended in which onLimitExceeded and onOutputCapped were
\* both invoked.
C39_Witness ==
  /\ ReturnedProceed
  /\ Len(limitCalls) = 1
  /\ Len(cappedCalls) = 1

\* An EvaluationResult is well formed: proceed is false exactly when an
\* error is present; the error is a GramLimitError or a GramDowngradeError;
\* a rejection carries no request, no downgrade and no outputCap; a result
\* that proceeds carries a request.
WellFormed(res) ==
  /\ ~res.proceed <=> res.error # NULL
  /\ res.error # NULL => res.error.kind \in {"GramLimitError", "GramDowngradeError"}
  /\ ~res.proceed =>
       res.modifiedArgs = NoValue /\ res.downgraded = NULL /\ res.outputCapped = NULL
  /\ res.proceed => res.modifiedArgs # NoValue /\ res.modifiedArgs \in DOMAIN heap

\* C40: every result evaluateRequest or safeEvaluateRequest returns is well
\* formed: proceed=false if and only if an error is present, the error is a
\* GramLimitError or a GramDowngradeError, a rejection carries no request,
\* downgrade or outputCap, and proceed=true always carries a request; so
\* the wrapper's test `!result.proceed && result.error` never lets a
\* rejected request reach the provider.
C40_ResultsWellFormed ==
  direct = NULL =>
    /\ evalResult # NULL => WellFormed(evalResult)
    /\ result # NULL => WellFormed(result)
    /\ providerCalls # <<>> => result # NULL /\ result.proceed
    /\ (result # NULL /\ ~result.proceed /\ pc = "done") =>
         /\ providerCalls = <<>>
         /\ outcome = [kind |-> "rejected", error |-> result.error]

\* A rejected evaluation ended the wrapped call before the provider.
C40_Witness ==
  /\ direct = NULL
  /\ result # NULL
  /\ ~result.proceed
  /\ pc = "done"
  /\ providerCalls = <<>>

====
